---- MODULE Spec2Model ----
(***************************************************************************)
(* The calendar editor's in-memory store (useAppStore) and its JSON        *)
(* export/import, as a state machine.                                      *)
(*                                                                         *)
(* Values are kept symbolic where the store only copies them: a frame, a   *)
(* transform or a cover text is a string naming the value, ids are the     *)
(* strings "p1", "a1", "g1", ..., the absent id (null) is "null" and an    *)
(* absent optional field (undefined) is "undefined".  A page's month is a  *)
(* number, 0 standing for 'cover'.  monthsPerPage is 1, 2 or 0 for a       *)
(* project stored without the field (undefined).  Of a project's scalar    *)
(* fields that updateProject merely merges (title, calendarType, format,   *)
(* orientation, fontFamily, ...) the title stands for all.  Timestamps     *)
(* (createdAt, updatedAt, lastUpdated) are not part of the state.          *)
(***************************************************************************)
EXTENDS Integers, Sequences, FiniteSets, TLC

VARIABLES
  projects,          \* CalendarProject[]
  activeProjectId,   \* string | null
  activePageIndex,   \* number
  assets,            \* ImageAsset[]
  groups,            \* ImageGroup[]
  selectedAssetIds,  \* string[]
  history,           \* HistoryAction[]
  historyIndex,      \* number
  last,              \* the operation performed last and its arguments
  nops,              \* number of project-side operations performed so far
  rt,                \* progress of a monthsPerPage 1 -> 2 -> 1 round trip
  remote,            \* the rows of the remote store (projects, assets, asset_groups, groups)
  localCache,        \* localStorage[STORAGE_KEY]: <<>> or <<the JSON document>>
  debounce,          \* createDebouncedSave's closure: timeoutId and the pending timeouts
  saves,             \* the saveState calls in flight
  saved,             \* the saveState calls made by the debounced save, in order
  loading,           \* the store's loadState(): "idle", "pending" or "done"
  call,              \* the operation running: its arguments and the set() calls it has left
  hops               \* the pushHistory and undo calls made so far

store == <<projects, activeProjectId, activePageIndex, assets, groups,
           selectedAssetIds, history, historyIndex>>
persistence == <<remote, localCache, debounce, saves, saved, loading>>
\* no operation is running
NoCall == [op |-> "none"]
vars == <<projects, activeProjectId, activePageIndex, assets, groups,
          selectedAssetIds, history, historyIndex, last, nops, rt,
          remote, localCache, debounce, saves, saved, loading, call, hops>>

----------------------------------------------------------------------------
(* Bounds of the model *)

MaxProjects == 2
MaxAssets == 2
MaxGroups == 2
MaxOps == 3
MaxPageIndex == 3
MaxSelect == 3

(* Program constants *)

MAX_HISTORY == 20
Cover == 0
NoMonthsPerPage == 0

Null == "null"
Undefined == "undefined"

ProjectIdSeq == <<"p1", "p2", "p3", "p4", "p5", "p6">>
AssetIdSeq == <<"a1", "a2", "a3", "a4", "a5", "a6">>
GroupIdSeq == <<"g1", "g2", "g3", "g4", "g5", "g6">>
ProjectIds == {ProjectIdSeq[i] : i \in 1..MaxProjects}
AssetIds == {AssetIdSeq[i] : i \in 1..MaxAssets}
GroupIds == {GroupIdSeq[i] : i \in 1..MaxGroups}

----------------------------------------------------------------------------
(* Sequence helpers standing for the Array methods the store uses *)

Range(s) == {s[i] : i \in 1..Len(s)}

\* [...new Set(s)]: the first occurrence of every element, in order
RECURSIVE Dedup(_)
Dedup(s) ==
  IF s = <<>> THEN <<>>
  ELSE LET r == Dedup(SubSeq(s, 1, Len(s) - 1))
           x == s[Len(s)]
       IN IF x \in Range(r) THEN r ELSE Append(r, x)

\* Array.prototype.indexOf, 0-based, -1 when absent
IndexOf(s, x) ==
  IF x \in Range(s) THEN (CHOOSE i \in 1..Len(s) : s[i] = x /\ \A j \in 1..(i - 1) : s[j] # x) - 1
  ELSE -1

\* Array.prototype.findIndex on a property, 1-based, 0 when absent
FirstIndex(s, P(_)) ==
  IF \E i \in 1..Len(s) : P(s[i])
  THEN CHOOSE i \in 1..Len(s) : P(s[i]) /\ \A j \in 1..(i - 1) : ~P(s[j])
  ELSE 0

----------------------------------------------------------------------------
(* Page Generator *)

DEFAULT_IMAGE_TRANSFORM == "defaultTransform"
DEFAULT_GRID_STYLE == "defaultGridStyle"
DEFAULT_IMAGE_FRAME == "defaultImageFrame"
DEFAULT_GRID_FRAME == "defaultGridFrame"
DEFAULT_COVER_MARGINS == <<10, 10, 10, 10>>
DEFAULT_MONTH_MARGINS == <<10, 10, 10, 10>>
NoMargins == <<>>

CoverPage ==
  [month |-> Cover, imageFrame |-> "coverImageFrame", calendarGridFrame |-> "coverGridFrame",
   assignedImageId |-> Null, imageTransform |-> DEFAULT_IMAGE_TRANSFORM,
   showGrid |-> FALSE, gridStyle |-> DEFAULT_GRID_STYLE, margins |-> DEFAULT_COVER_MARGINS,
   coverTextTop |-> Undefined, coverTextBottom |-> Undefined]

MonthPage(m) ==
  [month |-> m, imageFrame |-> DEFAULT_IMAGE_FRAME, calendarGridFrame |-> DEFAULT_GRID_FRAME,
   assignedImageId |-> Null, imageTransform |-> DEFAULT_IMAGE_TRANSFORM,
   showGrid |-> TRUE, gridStyle |-> DEFAULT_GRID_STYLE, margins |-> DEFAULT_MONTH_MARGINS,
   coverTextTop |-> Undefined, coverTextBottom |-> Undefined]

\* createDefaultMonthPages with the cover pushed in the single-month branch only
createDefaultMonthPages_CoverInOneBranch(monthsPerPage) ==
  IF monthsPerPage = 1
  THEN <<CoverPage>> \o [i \in 1..12 |-> MonthPage(i)]
  ELSE [i \in 1..6 |-> MonthPage(2 * i - 1)]

\* createDefaultMonthPages whose pair branch steps by one month
createDefaultMonthPages_EveryMonth(monthsPerPage) ==
  IF monthsPerPage = 1
  THEN <<CoverPage>> \o [i \in 1..12 |-> MonthPage(i)]
  ELSE <<CoverPage>> \o [i \in 1..12 |-> MonthPage(i)]

\* createDefaultMonthPages(monthsPerPage = 2): anything but 1 takes the pair branch
createDefaultMonthPages(monthsPerPage) ==
  IF monthsPerPage = 1
  THEN <<CoverPage>> \o [i \in 1..12 |-> MonthPage(i)]
  ELSE <<CoverPage>> \o [i \in 1..6 |-> MonthPage(2 * i - 1)]

\* expectedPageCount: cover + 12 months, or cover + 6 pairs
ExpectedPageCount(monthsPerPage) == IF monthsPerPage = 1 THEN 13 ELSE 7

----------------------------------------------------------------------------
(* Partial<CalendarProject>: `has` names the keys present in the object *)

Updates(has, title, monthsPerPage, months) ==
  [has |-> has, title |-> title, monthsPerPage |-> monthsPerPage, months |-> months]
OnlyMonths(months) == Updates({"months"}, "", NoMonthsPerPage, months)
OnlyMonthsPerPage(n) == Updates({"monthsPerPage"}, "", n, <<>>)
OnlyTitle(t) == Updates({"title"}, t, NoMonthsPerPage, <<>>)

\* The store's state as one value: what get() returns
Cur ==
  [projects |-> projects, activeProjectId |-> activeProjectId,
   activePageIndex |-> activePageIndex, assets |-> assets, groups |-> groups,
   selectedAssetIds |-> selectedAssetIds, history |-> history,
   historyIndex |-> historyIndex]

HasProject(ps, id) == \E i \in 1..Len(ps) : ps[i].id = id
\* projects.find(p => p.id === id)
FindProject(ps, id) == ps[FirstIndex(ps, LAMBDA p : p.id = id)]

----------------------------------------------------------------------------
(* Reconciliation Logic *)

\* existingPages.find(page => page.month === m)
HasPage(pages, m) == \E i \in 1..Len(pages) : pages[i].month = m
FindPage(pages, m) == pages[FirstIndex(pages, LAMBDA page : page.month = m)]

\* preservedPages keeping the cover but taking every month page fresh
PreservedPages_FreshMonths(existingPages, targetMonthsPerPage) ==
  LET newPages == createDefaultMonthPages(targetMonthsPerPage)
  IN [index \in 1..Len(newPages) |->
        IF index = 1 /\ (\E i \in 1..Len(existingPages) : existingPages[i].month = Cover)
        THEN existingPages[CHOOSE i \in 1..Len(existingPages) :
                             /\ existingPages[i].month = Cover
                             /\ \A j \in 1..(i - 1) : existingPages[j].month # Cover]
        ELSE newPages[index]]

\* preservedPages keeping the month pages but taking the cover fresh
PreservedPages_FreshCover(existingPages, targetMonthsPerPage) ==
  LET newPages == createDefaultMonthPages(targetMonthsPerPage)
  IN [index \in 1..Len(newPages) |->
        IF index # 1 /\ (\E i \in 1..Len(existingPages) : existingPages[i].month = newPages[index].month)
        THEN existingPages[CHOOSE i \in 1..Len(existingPages) :
                             /\ existingPages[i].month = newPages[index].month
                             /\ \A j \in 1..(i - 1) : existingPages[j].month # newPages[index].month]
        ELSE newPages[index]]

\* preservedPages: newPages.map((newPage, index) => ...)
PreservedPages(existingPages, targetMonthsPerPage) ==
  LET newPages == createDefaultMonthPages(targetMonthsPerPage)
  IN [index \in 1..Len(newPages) |->
        IF index = 1
        THEN (IF HasPage(existingPages, Cover) THEN FindPage(existingPages, Cover)
              ELSE newPages[index])
        ELSE IF newPages[index].month # Cover /\ HasPage(existingPages, newPages[index].month)
             THEN FindPage(existingPages, newPages[index].month)
             ELSE newPages[index]]

\* shouldRegenerate, decided on the project as stored before the update
ShouldRegenerate(p, updates) ==
  LET expectedPageCount ==
        ExpectedPageCount(IF "monthsPerPage" \in updates.has THEN updates.monthsPerPage
                          ELSE p.monthsPerPage)
  IN \/ ("monthsPerPage" \in updates.has /\ updates.monthsPerPage # p.monthsPerPage)
     \/ Len(p.months) # expectedPageCount

TargetMonthsPerPage(p, updates) ==
  IF "monthsPerPage" \in updates.has THEN updates.monthsPerPage ELSE p.monthsPerPage

\* { ...p, ...updates }
Merged(p, updates) ==
  [id |-> p.id,
   title |-> IF "title" \in updates.has THEN updates.title ELSE p.title,
   monthsPerPage |-> IF "monthsPerPage" \in updates.has THEN updates.monthsPerPage
                     ELSE p.monthsPerPage,
   months |-> IF "months" \in updates.has THEN updates.months ELSE p.months]

\* the map callback of updateProject for the project whose id matches
UpdatedProject(p, updates) ==
  IF ShouldRegenerate(p, updates)
  THEN [Merged(p, updates) EXCEPT
          !.months = PreservedPages(p.months, TargetMonthsPerPage(p, updates))]
  ELSE Merged(p, updates)

\* updateProject without the nested set({ activePageIndex })
updateProject_NoClamp(s, id, updates) ==
  [s EXCEPT
     !.projects = [i \in 1..Len(s.projects) |->
                     IF s.projects[i].id = id THEN UpdatedProject(s.projects[i], updates)
                     ELSE s.projects[i]]]

\* updateProject(id, updates), with the nested set({ activePageIndex }) that
\* clamps the active page when the active project's list was regenerated
updateProject(s, id, updates) ==
  LET updatedProjects ==
        [i \in 1..Len(s.projects) |->
           IF s.projects[i].id = id THEN UpdatedProject(s.projects[i], updates)
           ELSE s.projects[i]]
      regenerated ==
        {i \in 1..Len(s.projects) :
           s.projects[i].id = id /\ ShouldRegenerate(s.projects[i], updates)}
      clamp ==
        \E i \in regenerated :
           s.activeProjectId = id /\ s.activePageIndex >= Len(updatedProjects[i].months)
  IN [s EXCEPT
        !.projects = updatedProjects,
        !.activePageIndex =
           IF clamp
           THEN LET i == CHOOSE j \in regenerated : TRUE
                    n == Len(updatedProjects[i].months) - 1
                IN IF n > 0 THEN n ELSE 0
           ELSE s.activePageIndex]

\* getActiveProject(): the project handed to the caller and the store it leaves
getActiveProject(s) ==
  IF ~HasProject(s.projects, s.activeProjectId)
  THEN [found |-> FALSE, project |-> [id |-> Null, title |-> "", monthsPerPage |-> NoMonthsPerPage, months |-> <<>>], store |-> s]
  ELSE LET project == FindProject(s.projects, s.activeProjectId)
       IN IF project.monthsPerPage = NoMonthsPerPage
          THEN [found |-> TRUE,
                project |-> [project EXCEPT !.monthsPerPage = 1],
                store |-> updateProject(s, project.id, OnlyMonthsPerPage(1))]
          ELSE IF Len(project.months) # ExpectedPageCount(project.monthsPerPage)
          THEN LET s2 == updateProject(s, project.id, OnlyMonthsPerPage(project.monthsPerPage))
               IN [found |-> TRUE,
                   project |-> FindProject(s2.projects, s.activeProjectId),
                   store |-> s2]
          ELSE [found |-> TRUE, project |-> project, store |-> s]

----------------------------------------------------------------------------
(* History *)

\* pushHistory(action)
\* pushHistory appending to the whole history, redo entries included
pushHistory_KeepFuture(s, action) ==
  LET appended == Append(s.history, action)
      newHistory ==
        IF Len(appended) > MAX_HISTORY
        THEN SubSeq(appended, Len(appended) - MAX_HISTORY + 1, Len(appended))
        ELSE appended
  IN [s EXCEPT !.history = newHistory, !.historyIndex = Len(newHistory) - 1]

\* undo moving the index whatever it is
undo_Unguarded(s) == [s EXCEPT !.historyIndex = s.historyIndex - 1]

\* undo(): only the index moves
undo(s) ==
  IF s.historyIndex < 0 THEN s
  ELSE [s EXCEPT !.historyIndex = s.historyIndex - 1]

\* redo(): only the index moves
redo(s) ==
  IF s.historyIndex >= Len(s.history) - 1 THEN s
  ELSE [s EXCEPT !.historyIndex = s.historyIndex + 1]

pushHistory(s, action) ==
  LET n == IF s.historyIndex + 1 < Len(s.history) THEN s.historyIndex + 1 ELSE Len(s.history)
      appended == Append(SubSeq(s.history, 1, n), action)
      newHistory ==
        IF Len(appended) > MAX_HISTORY
        THEN SubSeq(appended, Len(appended) - MAX_HISTORY + 1, Len(appended))
        ELSE appended
  IN [s EXCEPT !.history = newHistory, !.historyIndex = Len(newHistory) - 1]

----------------------------------------------------------------------------
(* Project actions *)

\* createProject(title, type, format, orientation); id is the uuid drawn
createProject(s, id, title) ==
  [s EXCEPT
     !.projects = Append(s.projects,
                         [id |-> id, title |-> title, monthsPerPage |-> 2,
                          months |-> createDefaultMonthPages(2)]),
     !.activeProjectId = id,
     !.activePageIndex = 0]

deleteProject(s, id) ==
  [s EXCEPT
     !.projects = SelectSeq(s.projects, LAMBDA p : p.id # id),
     !.activeProjectId = IF s.activeProjectId = id THEN Null ELSE s.activeProjectId]

setActiveProject(s, id) == [s EXCEPT !.activeProjectId = id, !.activePageIndex = 0]

setActivePage(s, index) == [s EXCEPT !.activePageIndex = index]

----------------------------------------------------------------------------
(* Page/Frame actions *)

\* The common opening of the page-level edits: getActiveProject(), return
\* without a project, project.months[pageIndex], return without a page
PageFound(s, pageIndex) ==
  LET g == getActiveProject(s)
  IN g.found /\ pageIndex >= 0 /\ pageIndex < Len(g.project.months)

WithActivePage(s, pageIndex, Body(_, _, _)) ==
  LET g == getActiveProject(s)
  IN IF ~g.found THEN s
     ELSE IF ~(pageIndex >= 0 /\ pageIndex < Len(g.project.months)) THEN g.store
     ELSE Body(g.store, g.project, g.project.months[pageIndex + 1])

updatePageLayout(s, pageIndex, frameType, frame) ==
  WithActivePage(s, pageIndex, LAMBDA st, project, page :
    updateProject(
      pushHistory(st, [type |-> "frame",
                       before |-> IF frameType = "image" THEN page.imageFrame
                                  ELSE page.calendarGridFrame,
                       after |-> frame, pageIndex |-> pageIndex]),
      project.id,
      OnlyMonths([project.months EXCEPT ![pageIndex + 1] =
                    IF frameType = "image" THEN [page EXCEPT !.imageFrame = frame]
                    ELSE [page EXCEPT !.calendarGridFrame = frame]])))

updateImageTransform(s, pageIndex, transform) ==
  WithActivePage(s, pageIndex, LAMBDA st, project, page :
    updateProject(
      pushHistory(st, [type |-> "transform", before |-> page.imageTransform,
                       after |-> transform, pageIndex |-> pageIndex]),
      project.id,
      OnlyMonths([project.months EXCEPT ![pageIndex + 1] =
                    [page EXCEPT !.imageTransform = transform]])))

\* assignImageToPage without the transform reset
assignImageToPage_KeepTransform(s, pageIndex, imageId) ==
  WithActivePage(s, pageIndex, LAMBDA st, project, page :
    updateProject(
      pushHistory(st, [type |-> "assign", before |-> page.assignedImageId,
                       after |-> imageId, pageIndex |-> pageIndex]),
      project.id,
      OnlyMonths([project.months EXCEPT ![pageIndex + 1] =
                    [page EXCEPT !.assignedImageId = imageId]])))

assignImageToPage(s, pageIndex, imageId) ==
  WithActivePage(s, pageIndex, LAMBDA st, project, page :
    updateProject(
      pushHistory(st, [type |-> "assign", before |-> page.assignedImageId,
                       after |-> imageId, pageIndex |-> pageIndex]),
      project.id,
      OnlyMonths([project.months EXCEPT ![pageIndex + 1] =
                    [page EXCEPT !.assignedImageId = imageId,
                                 !.imageTransform = DEFAULT_IMAGE_TRANSFORM]])))

toggleGrid(s, pageIndex) ==
  WithActivePage(s, pageIndex, LAMBDA st, project, page :
    updateProject(st, project.id,
      OnlyMonths([project.months EXCEPT ![pageIndex + 1] =
                    [page EXCEPT !.showGrid = ~page.showGrid]])))

\* updateCoverText without the page.month !== 'cover' return
updateCoverText_AnyPage(s, pageIndex, textType, text) ==
  WithActivePage(s, pageIndex, LAMBDA st, project, page :
    updateProject(st, project.id,
      OnlyMonths([project.months EXCEPT ![pageIndex + 1] =
                    IF textType = "top" THEN [page EXCEPT !.coverTextTop = text]
                    ELSE [page EXCEPT !.coverTextBottom = text]])))

updateCoverText(s, pageIndex, textType, text) ==
  WithActivePage(s, pageIndex, LAMBDA st, project, page :
    IF page.month # Cover THEN st
    ELSE updateProject(st, project.id,
           OnlyMonths([project.months EXCEPT ![pageIndex + 1] =
                         IF textType = "top" THEN [page EXCEPT !.coverTextTop = text]
                         ELSE [page EXCEPT !.coverTextBottom = text]])))

updatePageMargins(s, pageIndex, margins, applyToAllMonths) ==
  WithActivePage(s, pageIndex, LAMBDA st, project, page :
    updateProject(st, project.id,
      OnlyMonths(
        IF applyToAllMonths /\ page.month # Cover
        THEN [idx \in 1..Len(project.months) |->
                IF project.months[idx].month # Cover
                THEN [project.months[idx] EXCEPT !.margins = margins]
                ELSE project.months[idx]]
        ELSE [project.months EXCEPT ![pageIndex + 1] = [page EXCEPT !.margins = margins]])))

----------------------------------------------------------------------------
(* Asset and group actions *)

HasAsset(as, id) == \E i \in 1..Len(as) : as[i].id = id
\* getAssetById(id)
FindAsset(as, id) == as[FirstIndex(as, LAMBDA a : a.id = id)]

\* addAsset(assetData, providedId): id is providedId || uuidv4()
addAsset(s, id, sourceType, url) ==
  [s EXCEPT !.assets = Append(s.assets,
                              [id |-> id, sourceType |-> sourceType, url |-> url,
                               thumbnailUrl |-> Undefined, groupIds |-> <<>>])]

\* updateAsset(id, updates), the update being { url }
updateAsset(s, id, url) ==
  [s EXCEPT !.assets = [i \in 1..Len(s.assets) |->
                          IF s.assets[i].id = id THEN [s.assets[i] EXCEPT !.url = url]
                          ELSE s.assets[i]]]

\* createGroup(name, color); id is the uuid drawn
createGroup(s, id, name, color) ==
  [s EXCEPT !.groups = Append(s.groups,
                              [id |-> id, name |-> name, color |-> color,
                               imageIds |-> <<>>])]

\* updateGroup(id, updates), the update being { name }
updateGroup(s, id, name) ==
  [s EXCEPT !.groups = [i \in 1..Len(s.groups) |->
                          IF s.groups[i].id = id THEN [s.groups[i] EXCEPT !.name = name]
                          ELSE s.groups[i]]]

deleteGroup(s, id) ==
  [s EXCEPT
     !.groups = SelectSeq(s.groups, LAMBDA g : g.id # id),
     !.assets = [i \in 1..Len(s.assets) |->
                   [s.assets[i] EXCEPT
                      !.groupIds = SelectSeq(s.assets[i].groupIds, LAMBDA gid : gid # id)]]]

addImagesToGroup(s, groupId, imageIds) ==
  [s EXCEPT
     !.groups = [i \in 1..Len(s.groups) |->
                   IF s.groups[i].id = groupId
                   THEN [s.groups[i] EXCEPT !.imageIds = Dedup(s.groups[i].imageIds \o imageIds)]
                   ELSE s.groups[i]],
     !.assets = [i \in 1..Len(s.assets) |->
                   IF s.assets[i].id \in Range(imageIds)
                      /\ groupId \notin Range(s.assets[i].groupIds)
                   THEN [s.assets[i] EXCEPT !.groupIds = Append(s.assets[i].groupIds, groupId)]
                   ELSE s.assets[i]]]

\* removeImagesFromGroup updating the group only
removeImagesFromGroup_GroupOnly(s, groupId, imageIds) ==
  [s EXCEPT
     !.groups = [i \in 1..Len(s.groups) |->
                   IF s.groups[i].id = groupId
                   THEN [s.groups[i] EXCEPT
                           !.imageIds = SelectSeq(s.groups[i].imageIds,
                                                  LAMBDA id : id \notin Range(imageIds))]
                   ELSE s.groups[i]]]

removeImagesFromGroup(s, groupId, imageIds) ==
  [s EXCEPT
     !.groups = [i \in 1..Len(s.groups) |->
                   IF s.groups[i].id = groupId
                   THEN [s.groups[i] EXCEPT
                           !.imageIds = SelectSeq(s.groups[i].imageIds,
                                                  LAMBDA id : id \notin Range(imageIds))]
                   ELSE s.groups[i]],
     !.assets = [i \in 1..Len(s.assets) |->
                   IF s.assets[i].id \in Range(imageIds)
                   THEN [s.assets[i] EXCEPT
                           !.groupIds = SelectSeq(s.assets[i].groupIds,
                                                  LAMBDA gid : gid # groupId)]
                   ELSE s.assets[i]]]

\* asset.groupIds.forEach(groupId => removeImagesFromGroup(groupId, [id]))
RECURSIVE RemoveFromGroups(_, _, _)
RemoveFromGroups(s, groupIds, id) ==
  IF groupIds = <<>> THEN s
  ELSE RemoveFromGroups(removeImagesFromGroup(s, Head(groupIds), <<id>>), Tail(groupIds), id)

\* page.assignedImageId === id ? { ...page, assignedImageId: null } : page
Unassigned(months, id) ==
  [i \in 1..Len(months) |->
     IF months[i].assignedImageId = id THEN [months[i] EXCEPT !.assignedImageId = Null]
     ELSE months[i]]

\* get().projects.forEach(project => ...): the projects as read before the loop
RECURSIVE UnassignFromPages(_, _, _)
UnassignFromPages(s, ps, id) ==
  IF ps = <<>> THEN s
  ELSE LET project == Head(ps)
           updatedMonths == Unassigned(project.months, id)
       IN UnassignFromPages(
            IF updatedMonths # project.months
            THEN updateProject(s, project.id, OnlyMonths(updatedMonths))
            ELSE s,
            Tail(ps), id)

deleteAsset(s, id) ==
  LET s1 == IF HasAsset(s.assets, id)
            THEN RemoveFromGroups(s, FindAsset(s.assets, id).groupIds, id)
            ELSE s
      s2 == UnassignFromPages(s1, s1.projects, id)
  IN [s2 EXCEPT
        !.assets = SelectSeq(s2.assets, LAMBDA a : a.id # id),
        !.selectedAssetIds = SelectSeq(s2.selectedAssetIds, LAMBDA aid : aid # id)]

----------------------------------------------------------------------------
(* Selection *)

selectAsset(s, id, multi) ==
  [s EXCEPT !.selectedAssetIds =
     IF multi
     THEN (IF id \in Range(s.selectedAssetIds)
           THEN SelectSeq(s.selectedAssetIds, LAMBDA aid : aid # id)
           ELSE Append(s.selectedAssetIds, id))
     ELSE <<id>>]

\* allIds.slice(minIndex, maxIndex + 1), 0-based bounds
Slice(allIds, from, to) == SubSeq(allIds, from + 1, IF to < Len(allIds) THEN to ELSE Len(allIds))

\* selectAssetRange slicing from startIndex to endIndex as given
selectAssetRange_NoSwap(s, startId, endId, given, assetIds) ==
  LET allIds == IF given THEN assetIds ELSE [i \in 1..Len(s.assets) |-> s.assets[i].id]
      startIndex == IndexOf(allIds, startId)
      endIndex == IndexOf(allIds, endId)
  IN IF startIndex = -1 \/ endIndex = -1 THEN s
     ELSE [s EXCEPT !.selectedAssetIds =
             Dedup(s.selectedAssetIds \o Slice(allIds, startIndex, endIndex + 1))]

\* selectAssetRange(startId, endId, assetIds): given says whether assetIds was passed
selectAssetRange(s, startId, endId, given, assetIds) ==
  LET allIds == IF given THEN assetIds ELSE [i \in 1..Len(s.assets) |-> s.assets[i].id]
      startIndex == IndexOf(allIds, startId)
      endIndex == IndexOf(allIds, endId)
      minIndex == IF startIndex < endIndex THEN startIndex ELSE endIndex
      maxIndex == IF startIndex < endIndex THEN endIndex ELSE startIndex
  IN IF startIndex = -1 \/ endIndex = -1 THEN s
     ELSE [s EXCEPT !.selectedAssetIds =
             Dedup(s.selectedAssetIds \o Slice(allIds, minIndex, maxIndex + 1))]

selectAllAssets(s, assetIds) == [s EXCEPT !.selectedAssetIds = assetIds]

clearSelection(s) == [s EXCEPT !.selectedAssetIds = <<>>]

----------------------------------------------------------------------------
(* Persistence: snapshots *)

\* getSnapshot()
getSnapshot(s) ==
  [version |-> 1, projects |-> s.projects, assets |-> s.assets, groups |-> s.groups,
   activeProjectId |-> s.activeProjectId, activePageIndex |-> s.activePageIndex]

\* self.findIndex(g => g.id === group.id) === index, then the same on the name
UniqueById(gs) ==
  LET keep == {i \in 1..Len(gs) : \A j \in 1..(i - 1) : gs[j].id # gs[i].id}
  IN [k \in 1..Cardinality(keep) |->
        gs[CHOOSE i \in keep : Cardinality({j \in keep : j <= i}) = k]]

UniqueByName(gs) ==
  LET keep == {i \in 1..Len(gs) : \A j \in 1..(i - 1) : gs[j].name # gs[i].name}
  IN [k \in 1..Cardinality(keep) |->
        gs[CHOOSE i \in keep : Cardinality({j \in keep : j <= i}) = k]]

\* loadSnapshot that leaves a store with projects alone
loadSnapshot_UnlessEdited(s, snapshot) ==
  IF s.projects # <<>> THEN s
  ELSE [s EXCEPT
          !.projects = snapshot.projects,
          !.assets = snapshot.assets,
          !.groups = UniqueByName(UniqueById(snapshot.groups)),
          !.activeProjectId = snapshot.activeProjectId,
          !.activePageIndex = snapshot.activePageIndex]

\* loadSnapshot that removes duplicate groups by id only
loadSnapshot_UniqueByIdOnly(s, snapshot) ==
  [s EXCEPT
     !.projects = snapshot.projects,
     !.assets = snapshot.assets,
     !.groups = UniqueById(snapshot.groups),
     !.activeProjectId = snapshot.activeProjectId,
     !.activePageIndex = snapshot.activePageIndex]

loadSnapshot(s, snapshot) ==
  [s EXCEPT
     !.projects = snapshot.projects,
     !.assets = snapshot.assets,
     !.groups = UniqueByName(UniqueById(snapshot.groups)),
     !.activeProjectId = snapshot.activeProjectId,
     !.activePageIndex = snapshot.activePageIndex]

----------------------------------------------------------------------------
(* Inputs *)

OutOfRangeIndex == 13
PageIndexes == {0, MaxPageIndex, OutOfRangeIndex}
ImageIds == AssetIds \cup {Null}

\* A page list as the store before monthsPerPage wrote it: no margins
LegacyPages ==
  [i \in 1..13 |->
     IF i = 1 THEN [CoverPage EXCEPT !.margins = NoMargins, !.assignedImageId = "a2"]
     ELSE [MonthPage(i - 1) EXCEPT
             !.margins = NoMargins,
             !.assignedImageId = IF i - 1 = 3 THEN "a1" ELSE Null]]

SnapshotAssets ==
  << [id |-> "a1", sourceType |-> "upload", url |-> "u1", thumbnailUrl |-> Undefined,
      groupIds |-> <<"g1">>],
     [id |-> "a2", sourceType |-> "url", url |-> "u2", thumbnailUrl |-> "thumb",
      groupIds |-> <<>>] >>

SnapshotGroups == << [id |-> "g1", name |-> "Nature", color |-> Undefined, imageIds |-> <<"a1">>] >>

\* a project saved before monthsPerPage existed, read back from the local cache
LegacySnapshot ==
  [version |-> 1,
   projects |-> << [id |-> "p1", title |-> "t1", monthsPerPage |-> NoMonthsPerPage,
                    months |-> LegacyPages] >>,
   assets |-> SnapshotAssets, groups |-> SnapshotGroups,
   activeProjectId |-> "p1", activePageIndex |-> 0]

\* a two-months-per-page project read back as monthsPerPage 1 (months_per_page || 1)
MismatchSnapshot ==
  [version |-> 1,
   projects |-> << [id |-> "p1", title |-> "t1", monthsPerPage |-> 1,
                    months |-> [createDefaultMonthPages(2) EXCEPT
                                  ![4] = [@ EXCEPT !.assignedImageId = "a1",
                                                   !.imageTransform = "t1"]]] >>,
   assets |-> SnapshotAssets, groups |-> SnapshotGroups,
   activeProjectId |-> Null, activePageIndex |-> 0]

\* a one-month-per-page project with images on months 2 and 5
SingleSnapshot ==
  [version |-> 1,
   projects |-> << [id |-> "p1", title |-> "t1", monthsPerPage |-> 1,
                    months |-> [createDefaultMonthPages(1) EXCEPT
                                  ![3] = [@ EXCEPT !.assignedImageId = "a2"],
                                  ![6] = [@ EXCEPT !.assignedImageId = "a1",
                                                   !.imageTransform = "t1"]]] >>,
   assets |-> SnapshotAssets, groups |-> SnapshotGroups,
   activeProjectId |-> "p1", activePageIndex |-> 12]

Snapshots == {LegacySnapshot, MismatchSnapshot, SingleSnapshot}

\* page lists a caller hands to updateProject
ShortMonths == <<CoverPage, [MonthPage(5) EXCEPT !.assignedImageId = "a2"]>>
MonthsInputs == {ShortMonths, createDefaultMonthPages(1), createDefaultMonthPages(2)}

UpdatesInputs ==
  {OnlyTitle("t2"), OnlyMonthsPerPage(1), OnlyMonthsPerPage(2)}
  \cup {OnlyMonths(ms) : ms \in MonthsInputs}
  \cup {Updates({"monthsPerPage", "months"}, "", n, ShortMonths) : n \in {1, 2}}

----------------------------------------------------------------------------
(* The state machine *)

Idle == [stage |-> "idle", id |-> Null, months |-> <<>>]

Init ==
  /\ projects = <<>>
  /\ activeProjectId = Null
  /\ activePageIndex = 0
  /\ assets = <<>>
  /\ groups = <<>>
  /\ selectedAssetIds = <<>>
  /\ history = <<>>
  /\ historyIndex = -1
  /\ last = [op |-> "init"]
  /\ nops = 0
  /\ rt = Idle
  /\ remote = [projects |-> <<>>, assets |-> <<>>, asset_groups |-> {}, groups |-> <<>>]
  /\ localCache = <<>>
  /\ debounce = [timeoutId |-> 0, pending |-> <<>>, calls |-> 0]
  /\ saves = <<>>
  /\ saved = <<>>
  /\ loading = "idle"
  /\ call = NoCall
  /\ hops = [pushes |-> 0, undos |-> 0]

Commit(s) ==
  /\ projects' = s.projects
  /\ activeProjectId' = s.activeProjectId
  /\ activePageIndex' = s.activePageIndex
  /\ assets' = s.assets
  /\ groups' = s.groups
  /\ selectedAssetIds' = s.selectedAssetIds
  /\ history' = s.history
  /\ historyIndex' = s.historyIndex

\* Follows updateProject(id, {monthsPerPage: 2}) on a monthsPerPage-1 project
\* and an immediately following updateProject(id, {monthsPerPage: 1})
RoundTrip(l) ==
  IF /\ l.op = "updateProject"
     /\ l.updates = OnlyMonthsPerPage(2)
     /\ HasProject(projects, l.id)
     /\ FindProject(projects, l.id).monthsPerPage = 1
  THEN [stage |-> "two", id |-> l.id, months |-> FindProject(projects, l.id).months]
  ELSE IF /\ l.op = "updateProject"
          /\ l.updates = OnlyMonthsPerPage(1)
          /\ rt.stage = "two"
          /\ rt.id = l.id
  THEN [rt EXCEPT !.stage = "back"]
  ELSE Idle

\* A project-side operation: counted against MaxOps
Do(s, l) ==
  /\ nops' = nops + 1
  /\ Commit(s)
  /\ last' = l
  /\ rt' = RoundTrip(l)
  /\ UNCHANGED persistence
  /\ UNCHANGED <<call, hops>>

\* uuidv4(): an id the state does not mention
FreshProjectId ==
  LET used == {projects[i].id : i \in 1..Len(projects)} \cup {activeProjectId}
      free == {i \in 1..MaxProjects : ProjectIdSeq[i] \notin used}
  IN IF free = {} THEN Null
     ELSE ProjectIdSeq[CHOOSE i \in free : \A j \in free : i <= j]

CreateProject ==
  /\ nops < MaxOps
  /\ FreshProjectId # Null
  /\ Do(createProject(Cur, FreshProjectId, "t1"), [op |-> "createProject", id |-> FreshProjectId])

UpdateProject ==
  \E id \in ProjectIds, updates \in UpdatesInputs :
    /\ nops < MaxOps
    /\ Do(updateProject(Cur, id, updates), [op |-> "updateProject", id |-> id, updates |-> updates])

DeleteProject ==
  \E id \in ProjectIds :
    /\ nops < MaxOps
    /\ Do(deleteProject(Cur, id), [op |-> "deleteProject", id |-> id])

SetActiveProject ==
  \E id \in ProjectIds \cup {Null} :
    /\ nops < MaxOps
    /\ Do(setActiveProject(Cur, id), [op |-> "setActiveProject", id |-> id])

SetActivePage ==
  \E index \in PageIndexes :
    /\ nops < MaxOps
    /\ Do(setActivePage(Cur, index), [op |-> "setActivePage", pageIndex |-> index])

UpdatePageLayout ==
  \E pageIndex \in PageIndexes, frameType \in {"image", "grid"} :
    /\ nops < MaxOps
    /\ Do(updatePageLayout(Cur, pageIndex, frameType, "f1"),
          [op |-> "updatePageLayout", pageIndex |-> pageIndex, frameType |-> frameType,
           found |-> PageFound(Cur, pageIndex)])

UpdateImageTransform ==
  \E pageIndex \in PageIndexes :
    /\ nops < MaxOps
    /\ Do(updateImageTransform(Cur, pageIndex, "t1"),
          [op |-> "updateImageTransform", pageIndex |-> pageIndex,
           found |-> PageFound(Cur, pageIndex)])

AssignImageToPage ==
  \E pageIndex \in PageIndexes, imageId \in ImageIds :
    /\ nops < MaxOps
    /\ Do(assignImageToPage(Cur, pageIndex, imageId),
          [op |-> "assignImageToPage", pageIndex |-> pageIndex, imageId |-> imageId,
           found |-> PageFound(Cur, pageIndex)])

ToggleGrid ==
  \E pageIndex \in PageIndexes :
    /\ nops < MaxOps
    /\ Do(toggleGrid(Cur, pageIndex),
          [op |-> "toggleGrid", pageIndex |-> pageIndex, found |-> PageFound(Cur, pageIndex)])

UpdateCoverText ==
  \E pageIndex \in PageIndexes, textType \in {"top", "bottom"} :
    /\ nops < MaxOps
    /\ Do(updateCoverText(Cur, pageIndex, textType, "x"),
          [op |-> "updateCoverText", pageIndex |-> pageIndex, textType |-> textType,
           found |-> PageFound(Cur, pageIndex)])

UpdatePageMargins ==
  \E pageIndex \in PageIndexes, applyToAllMonths \in BOOLEAN :
    /\ nops < MaxOps
    /\ Do(updatePageMargins(Cur, pageIndex, <<5, 5, 5, 5>>, applyToAllMonths),
          [op |-> "updatePageMargins", pageIndex |-> pageIndex,
           applyToAllMonths |-> applyToAllMonths, found |-> PageFound(Cur, pageIndex)])

DeleteAsset ==
  \E id \in AssetIds :
    /\ nops < MaxOps
    /\ Do(deleteAsset(Cur, id), [op |-> "deleteAsset", id |-> id])

LoadSnapshot ==
  \E snapshot \in Snapshots :
    /\ nops < MaxOps
    /\ Do(loadSnapshot(Cur, snapshot), [op |-> "loadSnapshot"])

Next ==
  \/ CreateProject
  \/ UpdateProject
  \/ DeleteProject
  \/ SetActiveProject
  \/ SetActivePage
  \/ UpdatePageLayout
  \/ UpdateImageTransform
  \/ AssignImageToPage
  \/ ToggleGrid
  \/ UpdateCoverText
  \/ UpdatePageMargins
  \/ DeleteAsset
  \/ LoadSnapshot

Spec == Init /\ [][Next]_vars

\* the updates the editor screens pass to updateProject: a scalar field or
\* monthsPerPage, never a page list
EditorUpdatesInputs == {OnlyTitle("t2"), OnlyMonthsPerPage(1), OnlyMonthsPerPage(2)}

EditorUpdateProject ==
  \E id \in ProjectIds, updates \in EditorUpdatesInputs :
    /\ nops < MaxOps
    /\ Do(updateProject(Cur, id, updates), [op |-> "updateProject", id |-> id, updates |-> updates])

\* The store as the application's screens drive it
NextEditor ==
  \/ CreateProject
  \/ EditorUpdateProject
  \/ DeleteProject
  \/ SetActiveProject
  \/ SetActivePage
  \/ UpdatePageLayout
  \/ UpdateImageTransform
  \/ AssignImageToPage
  \/ ToggleGrid
  \/ UpdateCoverText
  \/ UpdatePageMargins
  \/ DeleteAsset
  \/ LoadSnapshot

SpecEditor == Init /\ [][NextEditor]_vars

----------------------------------------------------------------------------
(* The library: assets and groups *)

\* every asset id the state mentions
MentionedAssetIds ==
  {assets[i].id : i \in 1..Len(assets)}
  \cup UNION {Range(groups[i].imageIds) : i \in 1..Len(groups)}
  \cup Range(selectedAssetIds)
  \cup UNION {{projects[i].months[j].assignedImageId : j \in 1..Len(projects[i].months)} :
               i \in 1..Len(projects)}

\* uuidv4(): an id the state does not mention
FreshAssetId ==
  LET free == {i \in 1..MaxAssets : AssetIdSeq[i] \notin MentionedAssetIds}
  IN IF free = {} THEN Null
     ELSE AssetIdSeq[CHOOSE i \in free : \A j \in free : i <= j]

FreshGroupId ==
  LET used == {groups[i].id : i \in 1..Len(groups)}
              \cup UNION {Range(assets[i].groupIds) : i \in 1..Len(assets)}
      free == {i \in 1..MaxGroups : GroupIdSeq[i] \notin used}
  IN IF free = {} THEN Null
     ELSE GroupIdSeq[CHOOSE i \in free : \A j \in free : i <= j]

\* A library operation: not counted, the library's state space is finite
DoLib(s, l) ==
  /\ Commit(s)
  /\ last' = l
  /\ UNCHANGED <<nops, rt, call, hops>>
  /\ UNCHANGED persistence

\* lists of distinct ids out of a pool, at most two long
IdLists(pool) ==
  {<<>>} \cup {<<a>> : a \in pool} \cup {ab \in pool \X pool : ab[1] # ab[2]}

AddAsset ==
  /\ FreshAssetId # Null
  /\ DoLib(addAsset(Cur, FreshAssetId, "upload", "u1"),
           [op |-> "addAsset", id |-> FreshAssetId])

UpdateAsset ==
  \E id \in AssetIds :
    /\ DoLib(updateAsset(Cur, id, "u2"), [op |-> "updateAsset", id |-> id])

CreateGroup ==
  /\ FreshGroupId # Null
  /\ DoLib(createGroup(Cur, FreshGroupId, "Nature", Undefined),
           [op |-> "createGroup", id |-> FreshGroupId])

UpdateGroup ==
  \E id \in GroupIds :
    /\ DoLib(updateGroup(Cur, id, "City"), [op |-> "updateGroup", id |-> id])

DeleteGroup ==
  \E id \in GroupIds :
    /\ DoLib(deleteGroup(Cur, id), [op |-> "deleteGroup", id |-> id])

AddImagesToGroup ==
  \E groupId \in GroupIds, imageIds \in IdLists(AssetIds) :
    /\ DoLib(addImagesToGroup(Cur, groupId, imageIds),
             [op |-> "addImagesToGroup", id |-> groupId, imageIds |-> imageIds])

RemoveImagesFromGroup ==
  \E groupId \in GroupIds, imageIds \in IdLists(AssetIds) :
    /\ DoLib(removeImagesFromGroup(Cur, groupId, imageIds),
             [op |-> "removeImagesFromGroup", id |-> groupId, imageIds |-> imageIds])

LibDeleteAsset ==
  \E id \in AssetIds :
    /\ DoLib(deleteAsset(Cur, id), [op |-> "deleteAsset", id |-> id])

NextLib ==
  \/ AddAsset
  \/ CreateGroup
  \/ DeleteGroup
  \/ AddImagesToGroup
  \/ RemoveImagesFromGroup
  \/ LibDeleteAsset

SpecLib == Init /\ [][NextLib]_vars

----------------------------------------------------------------------------
(* The library: selection *)

SelectIds == {AssetIdSeq[i] : i \in 1..MaxSelect}

\* the id orderings the library page passes: a filtered view of the asset list
Orderings ==
  {[k \in 1..Cardinality(S) |->
      AssetIdSeq[CHOOSE i \in S : Cardinality({j \in S : j <= i}) = k]] :
   S \in SUBSET (1..MaxSelect)}

SelectAsset ==
  \E id \in SelectIds, multi \in BOOLEAN :
    /\ DoLib(selectAsset(Cur, id, multi), [op |-> "selectAsset"])

\* reversed: startId lies after endId; present: both lie in the ordering
SelectAssetRangeWith(startId, endId, given, assetIds) ==
  LET allIds == IF given THEN assetIds ELSE [i \in 1..Len(assets) |-> assets[i].id]
  IN DoLib(selectAssetRange(Cur, startId, endId, given, assetIds),
           [op |-> "selectAssetRange",
            reversed |-> IndexOf(allIds, startId) > IndexOf(allIds, endId),
            present |-> {startId, endId} \subseteq Range(allIds),
            given |-> given])

SelectAssetRange ==
  \E startId \in SelectIds, endId \in SelectIds, given \in BOOLEAN, assetIds \in Orderings :
    /\ ~given => assetIds = <<>>
    /\ SelectAssetRangeWith(startId, endId, given, assetIds)

SelectAllAssets ==
  \E assetIds \in Orderings :
    /\ DoLib(selectAllAssets(Cur, assetIds), [op |-> "selectAllAssets"])

ClearSelection ==
  /\ DoLib(clearSelection(Cur), [op |-> "clearSelection"])

NextSelect ==
  \/ AddAsset
  \/ SelectAsset
  \/ SelectAssetRange
  \/ SelectAllAssets
  \/ ClearSelection

SpecSelect == Init /\ [][NextSelect]_vars

----------------------------------------------------------------------------
(* Selection: range select *)

\* the ids of allIds between the first positions of a and b, inclusive
Between(allIds, a, b) ==
  {allIds[k] : k \in {k \in 1..Len(allIds) :
      \E i, j \in 1..Len(allIds) :
         /\ allIds[i] = a /\ \A h \in 1..(i - 1) : allIds[h] # a
         /\ allIds[j] = b /\ \A h \in 1..(j - 1) : allIds[h] # b
         /\ ((i <= k /\ k <= j) \/ (j <= k /\ k <= i))}}

\* C9: selectAssetRange(startId, endId, ids) leaves selectedAssetIds holding the
\* previous selection together with the ids between the positions of startId and
\* endId in the ordering, inclusive, whichever of the two comes first; when either
\* id is absent from the ordering the selection is left as it was.
C9_RangeUnion ==
  \A startId \in SelectIds, endId \in SelectIds, given \in BOOLEAN, assetIds \in Orderings :
    LET allIds == IF given THEN assetIds ELSE [i \in 1..Len(assets) |-> assets[i].id]
        after == selectAssetRange(Cur, startId, endId, given, assetIds)
    IN IF {startId, endId} \subseteq Range(allIds)
       THEN /\ Range(after.selectedAssetIds) =
                 Range(selectedAssetIds) \cup Between(allIds, startId, endId)
            /\ Range(after.selectedAssetIds) =
                 Range(selectedAssetIds) \cup Between(allIds, endId, startId)
            /\ [after EXCEPT !.selectedAssetIds = selectedAssetIds] = Cur
       ELSE after = Cur

\* a range selected backwards (startId after endId) was merged into a selection
\* that already held an id outside the range
C9_Witness ==
  /\ last.op = "selectAssetRange"
  /\ last.reversed /\ last.present /\ last.given
  /\ selectedAssetIds = <<"a3", "a1", "a2">>

----------------------------------------------------------------------------
(* Page count and cover *)

PageCountRule(p) ==
  /\ p.monthsPerPage = 1 => Len(p.months) = 13
  /\ p.monthsPerPage = 2 => Len(p.months) = 7

\* C1: after updateProject(id, updates), whatever the partial update (updates that
\* set monthsPerPage and/or months included), the project has 13 pages when its
\* monthsPerPage is 1 and 7 pages when it is 2.
C1_PageCountAfterUpdate ==
  last.op = "updateProject" =>
    \A i \in 1..Len(projects) : projects[i].id = last.id => PageCountRule(projects[i])

Covers(p) == {i \in 1..Len(p.months) : p.months[i].month = Cover}

----------------------------------------------------------------------------
(* Groups and assets *)

\* C3: for every asset A and every group G in the store, A.groupIds contains G.id
\* exactly when G.imageIds contains A.id.
C3_GroupAssetSymmetry ==
  \A i \in 1..Len(assets), j \in 1..Len(groups) :
    groups[j].id \in Range(assets[i].groupIds) <=> assets[i].id \in Range(groups[j].imageIds)

\* an asset that sat in a group with another asset was deleted; the other asset
\* is still in two groups
C3_Witness ==
  /\ last.op = "deleteAsset"
  /\ Len(groups) = 2
  /\ \E i \in 1..Len(assets) :
       /\ assets[i].id # last.id
       /\ Len(assets[i].groupIds) = 2
       /\ \A j \in 1..Len(groups) : groups[j].imageIds = <<assets[i].id>>

\* C4: after deleteAsset(X), no page of any project has assignedImageId = X, no
\* group's imageIds contains X, and X is neither in assets nor in selectedAssetIds.
C4_DeleteAssetCascade ==
  last.op = "deleteAsset" =>
    /\ \A i \in 1..Len(projects) : \A j \in 1..Len(projects[i].months) :
         projects[i].months[j].assignedImageId # last.id
    /\ \A i \in 1..Len(groups) : last.id \notin Range(groups[i].imageIds)
    /\ ~HasAsset(assets, last.id)
    /\ last.id \notin Range(selectedAssetIds)

----------------------------------------------------------------------------
(* Reconciliation *)

OddMonths == {1, 3, 5, 7, 9, 11}

SameAssignments(before, after) ==
  \A m \in OddMonths :
    HasPage(before, m) =>
      /\ HasPage(after, m)
      /\ FindPage(after, m).assignedImageId = FindPage(before, m).assignedImageId

\* C5: for a project with monthsPerPage = 1, updateProject(id, {monthsPerPage: 2})
\* followed by updateProject(id, {monthsPerPage: 1}) leaves the page of every odd
\* month m (month 5 among them) with the assignedImageId it had before.
C5_RoundTrip ==
  /\ \A i \in 1..Len(projects) :
       projects[i].monthsPerPage = 1 =>
         LET id == projects[i].id
             two == updateProject(Cur, id, OnlyMonthsPerPage(2))
             back == updateProject(two, id, OnlyMonthsPerPage(1))
         IN /\ FindProject(two.projects, id).monthsPerPage = 2
            /\ FindProject(back.projects, id).monthsPerPage = 1
            /\ SameAssignments(projects[i].months, FindProject(back.projects, id).months)
  /\ rt.stage = "back" =>
       /\ HasProject(projects, rt.id)
       /\ SameAssignments(rt.months, FindProject(projects, rt.id).months)

\* the round trip was made on a project whose month 5 held image a1
C5_Witness ==
  /\ rt.stage = "back"
  /\ HasPage(rt.months, 5)
  /\ FindPage(rt.months, 5).assignedImageId = "a1"
  /\ FindPage(FindProject(projects, rt.id).months, 5).assignedImageId = "a1"
  /\ FindPage(FindProject(projects, rt.id).months, 2).assignedImageId = Null

\* the first page of `pages` whose month is m
FirstWithMonth(pages, m) ==
  pages[CHOOSE i \in 1..Len(pages) :
          pages[i].month = m /\ \A j \in 1..(i - 1) : pages[j].month # m]

\* C6: when updateProject changes monthsPerPage, the resulting list is the Page
\* Generator's list for the target value with the old cover at index 0 (if there
\* was one) and, in every month slot whose month occurs in the old list, the old
\* page of that month, unchanged; every other slot holds the generated default.
C6_ReconciledList ==
  \A i \in 1..Len(projects), updates \in UpdatesInputs :
    ("monthsPerPage" \in updates.has /\ updates.monthsPerPage # projects[i].monthsPerPage) =>
      LET old == projects[i].months
          generated == createDefaultMonthPages(updates.monthsPerPage)
          after == updateProject(Cur, projects[i].id, updates)
          new == FindProject(after.projects, projects[i].id).months
      IN /\ Len(new) = Len(generated)
         /\ \A k \in 1..Len(new) :
              LET m == generated[k].month
              IN IF \E j \in 1..Len(old) : old[j].month = m
                 THEN new[k] = FirstWithMonth(old, m)
                 ELSE new[k] = generated[k]

\* monthsPerPage went from 1 to 2 on a project whose month 5 carried an image and
\* a transform, and whose month 2 carried an image
C6_Witness ==
  /\ last.op = "updateProject"
  /\ rt.stage = "two"
  /\ HasPage(rt.months, 2)
  /\ FindPage(rt.months, 2).assignedImageId = "a2"
  /\ LET months == FindProject(projects, rt.id).months
     IN /\ Len(months) = 7
        /\ months[4].month = 5
        /\ months[4].assignedImageId = "a1"
        /\ months[4].imageTransform = "t1"

----------------------------------------------------------------------------
(* Page edits *)

AllPageIndexes == 0..OutOfRangeIndex

\* C7: for an active project and a page index at which assignImageToPage finds a
\* page, assignImageToPage(i, imgId) leaves months[i].assignedImageId = imgId and
\* months[i].imageTransform = DEFAULT_IMAGE_TRANSFORM, whatever the transform and
\* the assignment were (imgId null or the id already assigned included).
C7_AssignResetsTransform ==
  \A pageIndex \in AllPageIndexes, imageId \in ImageIds :
    PageFound(Cur, pageIndex) =>
      LET after == assignImageToPage(Cur, pageIndex, imageId)
          months == FindProject(after.projects, activeProjectId).months
      IN /\ pageIndex < Len(months)
         /\ months[pageIndex + 1].assignedImageId = imageId
         /\ months[pageIndex + 1].imageTransform = DEFAULT_IMAGE_TRANSFORM

\* an image was assigned to a page right after its transform had been changed
C7_Witness ==
  /\ last.op = "assignImageToPage"
  /\ last.found
  /\ Len(history) >= 2
  /\ history[Len(history)].type = "assign"
  /\ history[Len(history) - 1].type = "transform"
  /\ history[Len(history) - 1].pageIndex = last.pageIndex
  /\ history[Len(history) - 1].after = "t1"
  /\ FindProject(projects, activeProjectId).months[last.pageIndex + 1].imageTransform
       = DEFAULT_IMAGE_TRANSFORM

Consistent(p) ==
  /\ p.monthsPerPage # NoMonthsPerPage
  /\ Len(p.months) = ExpectedPageCount(p.monthsPerPage)

\* updateCoverText(pageIndex, ...) reaches a page that is not the cover
OnNonCoverPage(pageIndex) ==
  /\ PageFound(Cur, pageIndex)
  /\ getActiveProject(Cur).project.months[pageIndex + 1].month # Cover

\* C8 as claimed: updateCoverText on a page whose month is not 'cover' leaves the
\* page, the project's months list and the rest of the store unchanged.
C8_NonCoverUnchanged ==
  \A pageIndex \in AllPageIndexes, textType \in {"top", "bottom"} :
    OnNonCoverPage(pageIndex) => updateCoverText(Cur, pageIndex, textType, "x") = Cur

\* C8 as amended: updateCoverText on a page whose month is not 'cover' writes
\* nothing: the store is left as getActiveProject() leaves it, which is the store
\* as it was when the active project has monthsPerPage set and a page list of the
\* matching length, and otherwise differs from it in the active project alone.
C8_NonCoverWritesNothing ==
  \A pageIndex \in AllPageIndexes, textType \in {"top", "bottom"} :
    OnNonCoverPage(pageIndex) =>
      LET after == updateCoverText(Cur, pageIndex, textType, "x")
      IN /\ after = getActiveProject(Cur).store
         /\ Consistent(FindProject(projects, activeProjectId)) => after = Cur
         /\ [after EXCEPT !.projects = projects, !.activePageIndex = activePageIndex] = Cur
         /\ \A i \in 1..Len(projects) :
              projects[i].id # activeProjectId => after.projects[i] = projects[i]

\* updateCoverText was called on month page of a project stored without
\* monthsPerPage: the project was repaired and no cover text was written
C8_Witness ==
  /\ last.op = "updateCoverText"
  /\ last.found
  /\ last.pageIndex = MaxPageIndex
  /\ LET p == FindProject(projects, activeProjectId)
     IN /\ p.monthsPerPage = 1
        /\ p.months[1].margins = NoMargins
        /\ \A j \in 1..Len(p.months) :
             p.months[j].coverTextTop = Undefined /\ p.months[j].coverTextBottom = Undefined

----------------------------------------------------------------------------
(* Export/Import: the JSON document *)

(* A JSON document is modelled by its value tree: an object is a function from
   its keys to values, an array a sequence, a scalar a tagged value.
   JSON.stringify leaves out the keys of an object whose value is undefined;
   JSON.parse gives back the keys the text holds, so reading any other key of
   the parsed object yields undefined. *)

JsonNull == [t |-> "null"]
JsonString(v) == [t |-> "string", v |-> v]
JsonNumber(v) == [t |-> "number", v |-> v]
JsonBool(v) == [t |-> "boolean", v |-> v]

\* string | null
NullableToJson(v) == IF v = Null THEN JsonNull ELSE JsonString(v)
NullableFromJson(j) == IF j.t = "null" THEN Null ELSE j.v

\* the keys of an object literal that survive JSON.stringify
Present(obj, optional) == {k \in DOMAIN obj : ~(k \in DOMAIN optional /\ optional[k])}

\* obj[key] after JSON.parse, for an optional string key
OptionalString(obj, key) == IF key \in DOMAIN obj THEN obj[key].v ELSE Undefined

PageToJson(page) ==
  LET all == [month |-> IF page.month = Cover THEN JsonString("cover") ELSE JsonNumber(page.month),
              imageFrame |-> JsonString(page.imageFrame),
              calendarGridFrame |-> JsonString(page.calendarGridFrame),
              assignedImageId |-> NullableToJson(page.assignedImageId),
              imageTransform |-> JsonString(page.imageTransform),
              showGrid |-> JsonBool(page.showGrid),
              gridStyle |-> JsonString(page.gridStyle),
              margins |-> [i \in 1..Len(page.margins) |-> JsonNumber(page.margins[i])],
              coverTextTop |-> JsonString(page.coverTextTop),
              coverTextBottom |-> JsonString(page.coverTextBottom)]
      keys == Present(all, [margins |-> page.margins = NoMargins,
                            coverTextTop |-> page.coverTextTop = Undefined,
                            coverTextBottom |-> page.coverTextBottom = Undefined])
  IN [k \in keys |-> all[k]]

PageFromJson(obj) ==
  [month |-> IF obj.month.t = "string" THEN Cover ELSE obj.month.v,
   imageFrame |-> obj.imageFrame.v,
   calendarGridFrame |-> obj.calendarGridFrame.v,
   assignedImageId |-> NullableFromJson(obj.assignedImageId),
   imageTransform |-> obj.imageTransform.v,
   showGrid |-> obj.showGrid.v,
   gridStyle |-> obj.gridStyle.v,
   margins |-> IF "margins" \in DOMAIN obj
               THEN [i \in 1..Len(obj.margins) |-> obj.margins[i].v]
               ELSE NoMargins,
   coverTextTop |-> OptionalString(obj, "coverTextTop"),
   coverTextBottom |-> OptionalString(obj, "coverTextBottom")]

ProjectToJson(p) ==
  LET all == [id |-> JsonString(p.id),
              title |-> JsonString(p.title),
              monthsPerPage |-> JsonNumber(p.monthsPerPage),
              months |-> [i \in 1..Len(p.months) |-> PageToJson(p.months[i])]]
      keys == Present(all, [monthsPerPage |-> p.monthsPerPage = NoMonthsPerPage])
  IN [k \in keys |-> all[k]]

ProjectFromJson(obj) ==
  [id |-> obj.id.v,
   title |-> obj.title.v,
   monthsPerPage |-> IF "monthsPerPage" \in DOMAIN obj THEN obj.monthsPerPage.v
                     ELSE NoMonthsPerPage,
   months |-> [i \in 1..Len(obj.months) |-> PageFromJson(obj.months[i])]]

IdsToJson(ids) == [i \in 1..Len(ids) |-> JsonString(ids[i])]
IdsFromJson(arr) == [i \in 1..Len(arr) |-> arr[i].v]

AssetToJson(a) ==
  LET all == [id |-> JsonString(a.id),
              sourceType |-> JsonString(a.sourceType),
              url |-> JsonString(a.url),
              thumbnailUrl |-> JsonString(a.thumbnailUrl),
              groupIds |-> IdsToJson(a.groupIds)]
      keys == Present(all, [thumbnailUrl |-> a.thumbnailUrl = Undefined])
  IN [k \in keys |-> all[k]]

AssetFromJson(obj) ==
  [id |-> obj.id.v,
   sourceType |-> obj.sourceType.v,
   url |-> obj.url.v,
   thumbnailUrl |-> OptionalString(obj, "thumbnailUrl"),
   groupIds |-> IdsFromJson(obj.groupIds)]

GroupToJson(g) ==
  LET all == [id |-> JsonString(g.id),
              name |-> JsonString(g.name),
              color |-> JsonString(g.color),
              imageIds |-> IdsToJson(g.imageIds)]
      keys == Present(all, [color |-> g.color = Undefined])
  IN [k \in keys |-> all[k]]

GroupFromJson(obj) ==
  [id |-> obj.id.v,
   name |-> obj.name.v,
   color |-> OptionalString(obj, "color"),
   imageIds |-> IdsFromJson(obj.imageIds)]

\* exportData with includeAssetUrls false for every export
ExportData_NoAssetUrls(state, includeAssetUrls) ==
  [state EXCEPT
     !.assets = [i \in 1..Len(state.assets) |->
                   [state.assets[i] EXCEPT
                      !.url = IF state.assets[i].sourceType = "upload"
                              THEN "[upload - not exported]"
                              ELSE state.assets[i].url]]]

\* exportData: { ...state, exportedAt, assets: state.assets.map(...) }
ExportData(state, includeAssetUrls) ==
  [state EXCEPT
     !.assets = [i \in 1..Len(state.assets) |->
                   [state.assets[i] EXCEPT
                      !.url = IF state.assets[i].sourceType = "upload" /\ ~includeAssetUrls
                              THEN "[upload - not exported]"
                              ELSE state.assets[i].url]]]

\* JSON.stringify(exportData, null, 2)
exportProjectJSON(state, includeAssetUrls) ==
  LET exportData == ExportData(state, includeAssetUrls)
  IN [version |-> JsonNumber(exportData.version),
      projects |-> [i \in 1..Len(exportData.projects) |-> ProjectToJson(exportData.projects[i])],
      assets |-> [i \in 1..Len(exportData.assets) |-> AssetToJson(exportData.assets[i])],
      groups |-> [i \in 1..Len(exportData.groups) |-> GroupToJson(exportData.groups[i])],
      activeProjectId |-> NullableToJson(exportData.activeProjectId),
      activePageIndex |-> JsonNumber(exportData.activePageIndex),
      exportedAt |-> JsonString("now")]

\* importProjectJSON(jsonString): null without a projects array
importProjectJSON(json) ==
  IF "projects" \notin DOMAIN json THEN [ok |-> FALSE]
  ELSE [ok |-> TRUE,
        version |-> json.version.v,
        projects |-> [i \in 1..Len(json.projects) |-> ProjectFromJson(json.projects[i])],
        assets |-> [i \in 1..Len(json.assets) |-> AssetFromJson(json.assets[i])],
        groups |-> [i \in 1..Len(json.groups) |-> GroupFromJson(json.groups[i])],
        activeProjectId |-> NullableFromJson(json.activeProjectId),
        activePageIndex |-> json.activePageIndex.v]

\* C10: for every snapshot S, importProjectJSON(exportProjectJSON(S)) is a
\* snapshot with the projects, assets, groups, activeProjectId and
\* activePageIndex of S.
C10_ExportImportRoundTrip ==
  LET S == getSnapshot(Cur)
      imported == importProjectJSON(exportProjectJSON(S, TRUE))
  IN /\ imported.ok
     /\ imported.projects = S.projects
     /\ imported.assets = S.assets
     /\ imported.groups = S.groups
     /\ imported.activeProjectId = S.activeProjectId
     /\ imported.activePageIndex = S.activePageIndex

\* a snapshot with an uploaded asset, a group without colour and a project
\* stored without monthsPerPage whose cover has an image and no margins
C10_Witness ==
  /\ \E i \in 1..Len(assets) : assets[i].sourceType = "upload" /\ assets[i].thumbnailUrl = Undefined
  /\ \E i \in 1..Len(groups) : groups[i].color = Undefined /\ groups[i].imageIds # <<>>
  /\ \E i \in 1..Len(projects) :
       /\ projects[i].monthsPerPage = NoMonthsPerPage
       /\ projects[i].months[1].margins = NoMargins
       /\ projects[i].months[1].coverTextTop = Undefined
       /\ projects[i].months[1].assignedImageId # Null
  /\ activeProjectId # Null
  /\ importProjectJSON(exportProjectJSON(getSnapshot(Cur), TRUE)).ok

----------------------------------------------------------------------------
(* Persistence: the remote store, the local cache and the debounced save *)

MaxInFlight == 2

\* JSON.stringify(snapshot) as saveToLocalStorage stores it
StringifySnapshot(state) ==
  [version |-> JsonNumber(state.version),
   projects |-> [i \in 1..Len(state.projects) |-> ProjectToJson(state.projects[i])],
   assets |-> [i \in 1..Len(state.assets) |-> AssetToJson(state.assets[i])],
   groups |-> [i \in 1..Len(state.groups) |-> GroupToJson(state.groups[i])],
   activeProjectId |-> NullableToJson(state.activeProjectId),
   activePageIndex |-> JsonNumber(state.activePageIndex)]

\* JSON.parse(stored) as AppStateSnapshot
ParseSnapshot(json) ==
  [version |-> json.version.v,
   projects |-> [i \in 1..Len(json.projects) |-> ProjectFromJson(json.projects[i])],
   assets |-> [i \in 1..Len(json.assets) |-> AssetFromJson(json.assets[i])],
   groups |-> [i \in 1..Len(json.groups) |-> GroupFromJson(json.groups[i])],
   activeProjectId |-> NullableFromJson(json.activeProjectId),
   activePageIndex |-> json.activePageIndex.v]

\* saveToLocalStorage(state): the cache afterwards
saveToLocalStorage(state) == <<StringifySnapshot([state EXCEPT !.version = 1])>>

\* migrateState(state)
migrateState(state) == [state EXCEPT !.version = 1]

\* loadFromLocalStorage(): <<>> is null
loadFromLocalStorage(cache) ==
  IF cache = <<>> THEN <<>>
  ELSE LET parsed == ParseSnapshot(cache[1])
       IN IF parsed.version # 1 THEN <<migrateState(parsed)>> ELSE <<parsed>>

\* the row upserted for a project: { id: project.id, ...projectToDbProject(project) };
\* a project that carries its settings gives a row with their columns, and
\* no column is written for selectedGroupId, fontFamily, coverImageFit or
\* monthsImageFit
projectToDbProject(project) ==
  IF "calendarType" \in DOMAIN project
  THEN [id |-> project.id, title |-> project.title,
        calendar_type |-> project.calendarType, format |-> project.format,
        orientation |-> project.orientation, bleed |-> project.bleed,
        margin |-> project.margin, months |-> project.months,
        months_per_page |-> IF project.monthsPerPage = NoMonthsPerPage THEN 1
                            ELSE project.monthsPerPage]
  ELSE [id |-> project.id, title |-> project.title, months |-> project.months,
        months_per_page |-> IF project.monthsPerPage = NoMonthsPerPage THEN 1
                            ELSE project.monthsPerPage]

\* the project built from a row; the properties it does not set read as
\* undefined
dbProjectToProject(db) ==
  IF "calendar_type" \in DOMAIN db
  THEN [id |-> db.id, title |-> db.title,
        calendarType |-> db.calendar_type, format |-> db.format,
        orientation |-> db.orientation, bleed |-> db.bleed, margin |-> db.margin,
        months |-> db.months,
        monthsPerPage |-> IF db.months_per_page = NoMonthsPerPage THEN 1
                          ELSE db.months_per_page,
        selectedGroupId |-> Undefined, fontFamily |-> Undefined,
        coverImageFit |-> Undefined, monthsImageFit |-> Undefined]
  ELSE [id |-> db.id, title |-> db.title,
        monthsPerPage |-> IF db.months_per_page = NoMonthsPerPage THEN 1
                          ELSE db.months_per_page,
        months |-> db.months]

assetToDbAsset(asset) ==
  [id |-> asset.id, source_type |-> asset.sourceType, url |-> asset.url,
   thumbnail_url |-> IF asset.thumbnailUrl = Undefined THEN Null ELSE asset.thumbnailUrl]

\* the group_id column of the asset_groups rows of one asset, in id order
GroupIdsOf(asset_groups, assetId) ==
  SelectSeq(GroupIdSeq, LAMBDA g : <<assetId, g>> \in asset_groups)

dbAssetToAsset(db, asset_groups) ==
  [id |-> db.id, sourceType |-> db.source_type, url |-> db.url,
   thumbnailUrl |-> IF db.thumbnail_url = Null THEN Undefined ELSE db.thumbnail_url,
   groupIds |-> GroupIdsOf(asset_groups, db.id)]

groupToDbGroup(group) ==
  [id |-> group.id, name |-> group.name,
   color |-> IF group.color = Undefined THEN Null ELSE group.color,
   image_ids |-> group.imageIds]

dbGroupToGroup(db) ==
  [id |-> db.id, name |-> db.name,
   color |-> IF db.color = Null THEN Undefined ELSE db.color,
   imageIds |-> db.image_ids]

\* an insert that leaves an existing row as it is
Upsert_KeepExisting(rows, row) ==
  IF \E i \in 1..Len(rows) : rows[i].id = row.id THEN rows ELSE Append(rows, row)

\* upsert(row, { onConflict: 'id' })
Upsert(rows, row) ==
  IF \E i \in 1..Len(rows) : rows[i].id = row.id
  THEN [i \in 1..Len(rows) |-> IF rows[i].id = row.id THEN row ELSE rows[i]]
  ELSE Append(rows, row)

RECURSIVE UpsertAll(_, _)
UpsertAll(rows, new) ==
  IF new = <<>> THEN rows ELSE UpsertAll(Upsert(rows, Head(new)), Tail(new))

\* one asset of saveToSupabase: the row, then its asset_groups rows replaced;
\* the insert is one statement, refused as a whole when a group_id has no
\* groups row (foreign key), which is logged and not thrown
SaveAsset(r, asset) ==
  LET cleared == {ag \in r.asset_groups : ag[1] # asset.id}
      relationships == {<<asset.id, asset.groupIds[i]>> : i \in 1..Len(asset.groupIds)}
      accepted == \A i \in 1..Len(asset.groupIds) :
                    \E j \in 1..Len(r.groups) : r.groups[j].id = asset.groupIds[i]
  IN [r EXCEPT !.assets = Upsert(r.assets, assetToDbAsset(asset)),
               !.asset_groups = IF accepted THEN cleared \cup relationships ELSE cleared]

RECURSIVE SaveAssets(_, _)
SaveAssets(r, list) ==
  IF list = <<>> THEN r ELSE SaveAssets(SaveAsset(r, Head(list)), Tail(list))

MapSeq(list, F(_)) == [i \in 1..Len(list) |-> F(list[i])]

\* the stages of saveToSupabase, in order
SaveProjects(r, state) ==
  [r EXCEPT !.projects = UpsertAll(r.projects, MapSeq(state.projects, projectToDbProject))]
SaveGroups(r, state) ==
  [r EXCEPT !.groups = UpsertAll(r.groups, MapSeq(state.groups, groupToDbGroup))]

\* how a saveToSupabase call ends: completed, or thrown while writing a stage
SaveOutcomes == {"ok", "projects", "assets", "groups"}

\* saveToSupabase(state): the remote rows afterwards and whether it threw
saveToSupabase(r, state, outcome) ==
  LET r1 == SaveProjects(r, state)
      r2 == SaveAssets(r1, state.assets)
      r3 == SaveGroups(r2, state)
  IN CASE outcome = "projects" -> [remote |-> r, threw |-> TRUE]
       [] outcome = "assets" -> [remote |-> r1, threw |-> TRUE]
       [] outcome = "groups" -> [remote |-> r2, threw |-> TRUE]
       [] OTHER -> [remote |-> r3, threw |-> FALSE]

\* saveState without its catch: a remote failure skips the local write and
\* rejects the promise
saveState_NoFallback(r, cache, state, outcome) ==
  LET written == saveToSupabase(r, [state EXCEPT !.version = 1], outcome)
  IN [remote |-> written.remote,
      localCache |-> IF written.threw THEN cache
                     ELSE saveToLocalStorage([state EXCEPT !.version = 1]),
      promise |-> IF written.threw THEN "rejected" ELSE "resolved"]

\* saveState(state) with USE_SUPABASE
saveState(r, cache, state, outcome) ==
  LET snapshot == [state EXCEPT !.version = 1]
      written == saveToSupabase(r, snapshot, outcome)
  IN [remote |-> written.remote,
      localCache |-> saveToLocalStorage(snapshot),
      promise |-> "resolved"]

Reverse(list) == [i \in 1..Len(list) |-> list[Len(list) + 1 - i]]

\* loadFromSupabase(): rows newest first; <<>> is null (a failed read)
loadFromSupabase(r, outcome) ==
  IF outcome # "ok" THEN <<>>
  ELSE << [version |-> 1,
           projects |-> MapSeq(Reverse(r.projects), dbProjectToProject),
           assets |-> MapSeq(Reverse(r.assets), LAMBDA db : dbAssetToAsset(db, r.asset_groups)),
           groups |-> UniqueByName(UniqueById(MapSeq(Reverse(r.groups), dbGroupToGroup))),
           activeProjectId |-> Null,
           activePageIndex |-> 0] >>

LoadOutcomes == {"ok", "failed"}

\* loadState() with USE_SUPABASE: the snapshot returned (<<>> is null) and the
\* local cache afterwards
loadState(r, cache, outcome) ==
  LET state == loadFromSupabase(r, outcome)
  IN IF state # <<>>
     THEN [result |-> state, localCache |-> saveToLocalStorage(state[1])]
     ELSE [result |-> loadFromLocalStorage(cache), localCache |-> cache]

\* the debounced save without clearTimeout
debouncedSave_NoClear(d, state) ==
  [timeoutId |-> d.calls + 1,
   pending |-> Append(d.pending, [id |-> d.calls + 1, state |-> state]),
   calls |-> d.calls + 1]

\* a debounced save that lets a pending timeout stand and drops the new call
debouncedSave_KeepPending(d, state) ==
  IF d.timeoutId # 0 THEN [d EXCEPT !.calls = d.calls + 1]
  ELSE [timeoutId |-> d.calls + 1,
        pending |-> Append(d.pending, [id |-> d.calls + 1, state |-> state]),
        calls |-> d.calls + 1]

\* the function createDebouncedSave returns, called with state
debouncedSave(d, state) ==
  LET kept == IF d.timeoutId # 0
              THEN SelectSeq(d.pending, LAMBDA t : t.id # d.timeoutId)
              ELSE d.pending
  IN [timeoutId |-> d.calls + 1,
      pending |-> Append(kept, [id |-> d.calls + 1, state |-> state]),
      calls |-> d.calls + 1]

\* A store change under the auto-save subscription: the listener calls
\* debouncedSave(getSnapshot()) before the operation returns
DoSaved(s, l) ==
  /\ Commit(s)
  /\ last' = l
  /\ debounce' = debouncedSave(debounce, getSnapshot(s))
  /\ UNCHANGED <<rt, call, hops, remote, localCache, saves, saved, loading>>

SavedCreateProject ==
  /\ nops < MaxOps
  /\ FreshProjectId # Null
  /\ nops' = nops + 1
  /\ DoSaved(createProject(Cur, FreshProjectId, "t1"), [op |-> "createProject", id |-> FreshProjectId])

SavedDeleteProject ==
  \E id \in ProjectIds :
    /\ nops < MaxOps
    /\ HasProject(projects, id)
    /\ nops' = nops + 1
    /\ DoSaved(deleteProject(Cur, id), [op |-> "deleteProject", id |-> id])

\* the setTimeout callback of a pending timeout: saveState(state) is called
TimeoutFires ==
  \E k \in 1..Len(debounce.pending) :
    /\ Len(saves) < MaxInFlight
    /\ saves' = Append(saves, debounce.pending[k].state)
    /\ saved' = Append(saved, [call |-> debounce.pending[k].id, calls |-> debounce.calls,
                               state |-> debounce.pending[k].state])
    /\ debounce' = [debounce EXCEPT
                      !.timeoutId = 0,
                      !.pending = [i \in 1..(Len(debounce.pending) - 1) |->
                                     debounce.pending[IF i < k THEN i ELSE i + 1]]]
    /\ last' = [op |-> "timeout"]
    /\ UNCHANGED <<store, nops, rt, call, hops, remote, localCache, loading>>

\* a saveState call in flight settles, its remote write completed or thrown
SaveStateSettles ==
  \E k \in 1..Len(saves), outcome \in SaveOutcomes :
    LET done == saveState(remote, localCache, saves[k], outcome)
    IN /\ remote' = done.remote
       /\ localCache' = done.localCache
       /\ saves' = [i \in 1..(Len(saves) - 1) |-> saves[IF i < k THEN i ELSE i + 1]]
       /\ last' = [op |-> "saveState", outcome |-> outcome, state |-> saves[k],
                   promise |-> done.promise]
       /\ UNCHANGED <<store, nops, rt, call, hops, debounce, saved, loading>>

\* useEffect(() => { loadState() }): the store's loadState() is called once
LoadStateStarts ==
  /\ loading = "idle"
  /\ loading' = "pending"
  /\ last' = [op |-> "loadStateCalled"]
  /\ UNCHANGED <<store, nops, rt, call, hops, remote, localCache, debounce, saves, saved>>

\* the store's loadState() resumes after await loadState()
LoadStateSettles ==
  \E outcome \in LoadOutcomes :
    LET got == loadState(remote, localCache, outcome)
        s == IF got.result # <<>> THEN loadSnapshot(Cur, got.result[1]) ELSE Cur
    IN /\ loading = "pending"
       /\ loading' = "done"
       /\ localCache' = got.localCache
       /\ Commit(s)
       /\ debounce' = IF got.result # <<>> THEN debouncedSave(debounce, getSnapshot(s))
                      ELSE debounce
       /\ last' = [op |-> "loadState", outcome |-> outcome, result |-> got.result,
                   remoteEmpty |-> remote.projects = <<>> /\ remote.assets = <<>>
                                     /\ remote.groups = <<>>,
                   cached |-> localCache]
       /\ UNCHANGED <<nops, rt, call, hops, remote, saves, saved>>

NextPersist ==
  \/ SavedCreateProject
  \/ SavedDeleteProject
  \/ TimeoutFires
  \/ SaveStateSettles
  \/ LoadStateStarts
  \/ LoadStateSettles

SpecPersist == Init /\ [][NextPersist]_vars

\* timeouts fire and the remote store answers
SpecPersistFair ==
  /\ Init
  /\ [][NextPersist]_vars
  /\ WF_vars(TimeoutFires)
  /\ WF_vars(SaveStateSettles)

----------------------------------------------------------------------------
(* Persistence: saveState *)

----------------------------------------------------------------------------
(* Persistence: loadState *)

\* the remote store holds no project, asset or group
RemoteEmpty(r) == r.projects = <<>> /\ r.assets = <<>> /\ r.groups = <<>>

\* C12: loadState() returns the remote snapshot when the remote store holds
\* data, and the local cache's snapshot whenever the remote store holds no
\* project, asset or group or the remote read fails (the cache holding one).
C12_RemoteElseLocalCache ==
  /\ \A outcome \in LoadOutcomes :
       LET got == loadState(remote, localCache, outcome)
       IN IF outcome = "ok" /\ ~RemoteEmpty(remote)
          THEN got.result = loadFromSupabase(remote, "ok")
          ELSE localCache # <<>> => got.result = loadFromLocalStorage(localCache)
  /\ (last.op = "loadState" /\ (last.remoteEmpty \/ last.outcome = "failed")
        /\ last.cached # <<>>) =>
       last.result = loadFromLocalStorage(last.cached)

----------------------------------------------------------------------------
(* Persistence: the debounced save *)

\* Calls to the debounced save with no timeout firing in between form a burst.
\* At most one timeout is pending and it carries the snapshot of the latest
\* call; every saveState call was made with the snapshot of the call that was
\* the latest when the timeout fired, no call's snapshot is passed twice, and the
\* latest call is either still pending or the one saved last.
DebounceKeepsLatest ==
  /\ Len(debounce.pending) <= 1
  /\ \A k \in 1..Len(debounce.pending) : debounce.pending[k].id = debounce.calls
  /\ \A i \in 1..Len(saved) : saved[i].call = saved[i].calls
  /\ \A i, j \in 1..Len(saved) : i < j => saved[i].call < saved[j].call
  /\ debounce.calls > 0 =>
       \/ debounce.pending # <<>>
       \/ (saved # <<>> /\ saved[Len(saved)].call = debounce.calls)

\* C13: for a burst of calls to the debounced save, saveState is called exactly
\* once, after the last call of the burst and with the snapshot of that call; no
\* earlier snapshot of the burst is passed to saveState, and once the calls have
\* stopped no timeout stays pending.
C13_OneSavePerBurst ==
  /\ []DebounceKeepsLatest
  /\ <>[](debounce.pending = <<>>)

\* a burst of two calls was answered by one saveState call, made with the
\* snapshot of the second
C13_Witness ==
  /\ Len(saved) = 1
  /\ saved[1].call = 2
  /\ debounce.calls = 2
  /\ debounce.pending = <<>>
  /\ Len(saved[1].state.projects) = 2

----------------------------------------------------------------------------
(* Not-found ids and pages *)

\* projects, assets and groups of `after` are those of the current state
SameCollections(after) ==
  /\ after.projects = projects
  /\ after.assets = assets
  /\ after.groups = groups

\* C14: an operation called with an id that names no existing project, asset
\* or group, or a page-level edit called with a page index at which no page of
\* an active project is found, leaves projects, assets and groups unchanged.
C14_NotFoundIsNoOp ==
  /\ \A id \in ProjectIds : ~HasProject(projects, id) =>
       /\ \A updates \in UpdatesInputs : SameCollections(updateProject(Cur, id, updates))
       /\ SameCollections(deleteProject(Cur, id))
  /\ \A id \in AssetIds : ~HasAsset(assets, id) =>
       /\ SameCollections(updateAsset(Cur, id, "u2"))
       /\ SameCollections(deleteAsset(Cur, id))
  /\ \A id \in GroupIds : ~(\E i \in 1..Len(groups) : groups[i].id = id) =>
       /\ SameCollections(updateGroup(Cur, id, "City"))
       /\ SameCollections(deleteGroup(Cur, id))
       /\ \A imageIds \in IdLists(AssetIds) :
            /\ SameCollections(addImagesToGroup(Cur, id, imageIds))
            /\ SameCollections(removeImagesFromGroup(Cur, id, imageIds))
  /\ \A pageIndex \in AllPageIndexes : ~PageFound(Cur, pageIndex) =>
       /\ SameCollections(updatePageLayout(Cur, pageIndex, "image", "f1"))
       /\ SameCollections(updateImageTransform(Cur, pageIndex, "t1"))
       /\ SameCollections(assignImageToPage(Cur, pageIndex, "a1"))
       /\ SameCollections(toggleGrid(Cur, pageIndex))
       /\ SameCollections(updateCoverText(Cur, pageIndex, "top", "x"))
       /\ SameCollections(updatePageMargins(Cur, pageIndex, <<5, 5, 5, 5>>, TRUE))

----------------------------------------------------------------------------
(* Default pages *)

\* the months the pages after the cover carry, in order
DefaultMonths(monthsPerPage) ==
  IF monthsPerPage = 1 THEN <<1, 2, 3, 4, 5, 6, 7, 8, 9, 10, 11, 12>>
  ELSE <<1, 3, 5, 7, 9, 11>>

\* pages is a cover followed by the months of monthsPerPage, all with defaults
IsDefaultPageList(pages, monthsPerPage) ==
  /\ Len(pages) = 1 + Len(DefaultMonths(monthsPerPage))
  /\ pages[1].month = Cover
  /\ pages[1].margins = DEFAULT_COVER_MARGINS
  /\ \A i \in 2..Len(pages) :
       /\ pages[i].month = DefaultMonths(monthsPerPage)[i - 1]
       /\ pages[i].showGrid = TRUE
       /\ pages[i].margins = DEFAULT_MONTH_MARGINS
  /\ \A i \in 1..Len(pages) :
       /\ pages[i].assignedImageId = Null
       /\ pages[i].imageTransform = DEFAULT_IMAGE_TRANSFORM
       /\ pages[i].gridStyle = DEFAULT_GRID_STYLE

\* C15: createDefaultMonthPages(monthsPerPage) is one cover page at index 0
\* followed by the months 1..12 (monthsPerPage 1) or 1,3,5,7,9,11 (monthsPerPage
\* 2), every page unassigned with the default transform, grid style and margins
\* and showGrid true off the cover; createProject stores such a list for
\* monthsPerPage 2, makes the new project active and sets activePageIndex to 0.
C15_DefaultPages ==
  /\ \A monthsPerPage \in {1, 2} :
       IsDefaultPageList(createDefaultMonthPages(monthsPerPage), monthsPerPage)
  /\ \A id \in ProjectIds : ~HasProject(projects, id) =>
       LET after == createProject(Cur, id, "t1")
           project == after.projects[Len(after.projects)]
       IN /\ Len(after.projects) = Len(projects) + 1
          /\ project.id = id
          /\ project.monthsPerPage = 2
          /\ IsDefaultPageList(project.months, 2)
          /\ after.activeProjectId = id
          /\ after.activePageIndex = 0
  /\ last.op = "createProject" =>
       /\ activeProjectId = last.id
       /\ activePageIndex = 0
       /\ projects[Len(projects)].id = last.id
       /\ projects[Len(projects)].monthsPerPage = 2
       /\ IsDefaultPageList(projects[Len(projects)].months, 2)

\* a second project was created while another page of the first was shown
C15_Witness ==
  /\ last.op = "createProject"
  /\ Len(projects) = 2
  /\ activeProjectId = projects[2].id
  /\ Len(projects[2].months) = 7
  /\ Len(projects[1].months) = 13

----------------------------------------------------------------------------
(* updateProject with an explicit page list *)

\* the page list an update that carries `months` should leave: the list given,
\* reconciled to the target monthsPerPage when reconciliation is triggered
MonthsFromUpdates(p, updates) ==
  IF ShouldRegenerate(p, updates)
  THEN PreservedPages(updates.months, TargetMonthsPerPage(p, updates))
  ELSE updates.months

\* C16: when updateProject(id, updates) is called with an explicit updates.months
\* list, the project's resulting months are derived from that list and never
\* from the pre-update list, also when the call triggers reconciliation; so
\* deleteAsset's unassignment, routed through updateProject, is not discarded.
C16_MonthsFromUpdates ==
  /\ \A i \in 1..Len(projects), updates \in UpdatesInputs :
       "months" \in updates.has =>
         updateProject(Cur, projects[i].id, updates).projects[i].months
           = MonthsFromUpdates(projects[i], updates)
  /\ \A id \in AssetIds :
       LET after == deleteAsset(Cur, id)
       IN \A i \in 1..Len(after.projects) :
            \A j \in 1..Len(after.projects[i].months) :
              after.projects[i].months[j].assignedImageId # id

----------------------------------------------------------------------------
(* The set() calls of an operation.  Every set() call replaces the store state
   and notifies the subscribers before it returns, so the states below are the
   states a subscriber observes while the operation runs, in order. *)

\* the nested set({ activePageIndex }) of updateProject is reached
ClampsActivePage(s, id, updates) ==
  \E i \in 1..Len(s.projects) :
    /\ s.projects[i].id = id
    /\ ShouldRegenerate(s.projects[i], updates)
    /\ s.activeProjectId = id
    /\ s.activePageIndex >= Len(UpdatedProject(s.projects[i], updates).months)

\* updateProject: the nested set runs inside the updater of the outer set,
\* which commits { projects } on top of it
updateProjectSets(s, id, updates) ==
  LET after == updateProject(s, id, updates)
  IN IF ClampsActivePage(s, id, updates)
     THEN << [s EXCEPT !.activePageIndex = after.activePageIndex], after >>
     ELSE << after >>

\* getActiveProject: the sets of its repairing updateProject call, if any
getActiveProjectSets(s) ==
  IF ~HasProject(s.projects, s.activeProjectId) THEN <<>>
  ELSE LET project == FindProject(s.projects, s.activeProjectId)
       IN IF project.monthsPerPage = NoMonthsPerPage
          THEN updateProjectSets(s, project.id, OnlyMonthsPerPage(1))
          ELSE IF Len(project.months) # ExpectedPageCount(project.monthsPerPage)
          THEN updateProjectSets(s, project.id, OnlyMonthsPerPage(project.monthsPerPage))
          ELSE <<>>

\* a page edit that pushes a history entry and then calls updateProject
HistoryEditSets(s, pageIndex, action, pageAfter) ==
  LET g == getActiveProject(s)
  IN IF ~g.found THEN <<>>
     ELSE IF ~(pageIndex >= 0 /\ pageIndex < Len(g.project.months))
     THEN getActiveProjectSets(s)
     ELSE LET pushed == pushHistory(g.store, action)
          IN getActiveProjectSets(s) \o << pushed >>
             \o updateProjectSets(pushed, g.project.id,
                  OnlyMonths([g.project.months EXCEPT ![pageIndex + 1] = pageAfter]))

\* the page getActivePage-style lookups hand to a page edit (a default page
\* stands for "no page")
PageAt(s, pageIndex) ==
  LET g == getActiveProject(s)
  IN IF g.found /\ pageIndex >= 0 /\ pageIndex < Len(g.project.months)
     THEN g.project.months[pageIndex + 1]
     ELSE CoverPage

updatePageLayoutSets(s, pageIndex, frameType, frame) ==
  LET page == PageAt(s, pageIndex)
  IN HistoryEditSets(s, pageIndex,
       [type |-> "frame",
        before |-> IF frameType = "image" THEN page.imageFrame ELSE page.calendarGridFrame,
        after |-> frame, pageIndex |-> pageIndex],
       IF frameType = "image" THEN [page EXCEPT !.imageFrame = frame]
       ELSE [page EXCEPT !.calendarGridFrame = frame])

updateImageTransformSets(s, pageIndex, transform) ==
  LET page == PageAt(s, pageIndex)
  IN HistoryEditSets(s, pageIndex,
       [type |-> "transform", before |-> page.imageTransform,
        after |-> transform, pageIndex |-> pageIndex],
       [page EXCEPT !.imageTransform = transform])

assignImageToPageSets(s, pageIndex, imageId) ==
  LET page == PageAt(s, pageIndex)
  IN HistoryEditSets(s, pageIndex,
       [type |-> "assign", before |-> page.assignedImageId,
        after |-> imageId, pageIndex |-> pageIndex],
       [page EXCEPT !.assignedImageId = imageId,
                    !.imageTransform = DEFAULT_IMAGE_TRANSFORM])

\* asset.groupIds.forEach(groupId => removeImagesFromGroup(groupId, [id])): one set each
RECURSIVE RemoveFromGroupsSets(_, _, _)
RemoveFromGroupsSets(s, groupIds, id) ==
  IF groupIds = <<>> THEN <<>>
  ELSE LET after == removeImagesFromGroup(s, Head(groupIds), <<id>>)
       IN << after >> \o RemoveFromGroupsSets(after, Tail(groupIds), id)

\* get().projects.forEach(project => updateProject(project.id, { months }))
RECURSIVE UnassignFromPagesSets(_, _, _)
UnassignFromPagesSets(s, ps, id) ==
  IF ps = <<>> THEN <<>>
  ELSE LET project == Head(ps)
           updatedMonths == Unassigned(project.months, id)
       IN IF updatedMonths # project.months
          THEN updateProjectSets(s, project.id, OnlyMonths(updatedMonths))
               \o UnassignFromPagesSets(updateProject(s, project.id, OnlyMonths(updatedMonths)),
                                        Tail(ps), id)
          ELSE UnassignFromPagesSets(s, Tail(ps), id)

\* deleteAsset: the group sets, the page sets, then the set that removes the asset
deleteAssetSets(s, id) ==
  LET s1 == IF HasAsset(s.assets, id)
            THEN RemoveFromGroups(s, FindAsset(s.assets, id).groupIds, id)
            ELSE s
      s2 == UnassignFromPages(s1, s1.projects, id)
  IN (IF HasAsset(s.assets, id)
      THEN RemoveFromGroupsSets(s, FindAsset(s.assets, id).groupIds, id)
      ELSE <<>>)
     \o UnassignFromPagesSets(s1, s1.projects, id)
     \o << [s2 EXCEPT
              !.assets = SelectSeq(s2.assets, LAMBDA a : a.id # id),
              !.selectedAssetIds = SelectSeq(s2.selectedAssetIds, LAMBDA aid : aid # id)] >>

\* addImagesToGroup and removeImagesFromGroup are one set each
addImagesToGroupSets(s, groupId, imageIds) == << addImagesToGroup(s, groupId, imageIds) >>
removeImagesFromGroupSets(s, groupId, imageIds) == << removeImagesFromGroup(s, groupId, imageIds) >>

\* An operation is called: `before` is the store it finds, `whole` the store it
\* leaves when it returns, `sets` the states of its set() calls still to come
Begin(l, whole, sets) ==
  /\ call = NoCall
  /\ nops < MaxOps
  /\ nops' = nops + 1
  /\ call' = [op |-> l.op, args |-> l, before |-> Cur, whole |-> whole, sets |-> sets]
  /\ last' = l
  /\ UNCHANGED <<store, rt, hops>>
  /\ UNCHANGED persistence

BeginDeleteAsset ==
  \E id \in AssetIds :
    Begin([op |-> "deleteAsset", id |-> id], deleteAsset(Cur, id), deleteAssetSets(Cur, id))

BeginAssignImageToPage ==
  \E pageIndex \in PageIndexes, imageId \in ImageIds :
    Begin([op |-> "assignImageToPage", pageIndex |-> pageIndex, imageId |-> imageId],
          assignImageToPage(Cur, pageIndex, imageId),
          assignImageToPageSets(Cur, pageIndex, imageId))

BeginUpdatePageLayout ==
  \E pageIndex \in PageIndexes, frameType \in {"image", "grid"} :
    Begin([op |-> "updatePageLayout", pageIndex |-> pageIndex, frameType |-> frameType],
          updatePageLayout(Cur, pageIndex, frameType, "f1"),
          updatePageLayoutSets(Cur, pageIndex, frameType, "f1"))

BeginUpdateImageTransform ==
  \E pageIndex \in PageIndexes :
    Begin([op |-> "updateImageTransform", pageIndex |-> pageIndex],
          updateImageTransform(Cur, pageIndex, "t1"),
          updateImageTransformSets(Cur, pageIndex, "t1"))

BeginAddImagesToGroup ==
  \E groupId \in GroupIds, imageIds \in IdLists(AssetIds) :
    Begin([op |-> "addImagesToGroup", id |-> groupId, imageIds |-> imageIds],
          addImagesToGroup(Cur, groupId, imageIds),
          addImagesToGroupSets(Cur, groupId, imageIds))

BeginRemoveImagesFromGroup ==
  \E groupId \in GroupIds, imageIds \in IdLists(AssetIds) :
    Begin([op |-> "removeImagesFromGroup", id |-> groupId, imageIds |-> imageIds],
          removeImagesFromGroup(Cur, groupId, imageIds),
          removeImagesFromGroupSets(Cur, groupId, imageIds))

\* the running operation's next set(): the store is replaced and the
\* subscribers are notified
SetState ==
  /\ call # NoCall
  /\ call.sets # <<>>
  /\ Commit(Head(call.sets))
  /\ call' = [call EXCEPT !.sets = Tail(@)]
  /\ UNCHANGED <<last, nops, rt, hops>>
  /\ UNCHANGED persistence

\* the running operation returns
Return ==
  /\ call # NoCall
  /\ call.sets = <<>>
  /\ call' = NoCall
  /\ UNCHANGED <<store, last, nops, rt, hops>>
  /\ UNCHANGED persistence

\* operations of a single set(), between two calls
IdleLoadSnapshot == call = NoCall /\ LoadSnapshot
IdleSetActivePage == call = NoCall /\ SetActivePage

NextSets ==
  \/ IdleLoadSnapshot
  \/ IdleSetActivePage
  \/ BeginDeleteAsset
  \/ BeginAssignImageToPage
  \/ BeginUpdatePageLayout
  \/ BeginUpdateImageTransform
  \/ BeginAddImagesToGroup
  \/ BeginRemoveImagesFromGroup
  \/ SetState
  \/ Return

SpecSets == Init /\ [][NextSets]_vars

\* the set() calls of an operation end in the store the operation leaves
SetsEndInWhole ==
  call # NoCall =>
    IF call.sets # <<>> THEN call.sets[Len(call.sets)] = call.whole ELSE Cur = call.whole

\* a subscriber is looking at a state of deleteAsset(call.id)
DuringDeleteAsset == call # NoCall /\ call.op = "deleteAsset"

\* some group or page refers to the asset id
Referenced(id) ==
  \/ \E i \in 1..Len(groups) : id \in Range(groups[i].imageIds)
  \/ \E i \in 1..Len(projects) :
       \E j \in 1..Len(projects[i].months) : projects[i].months[j].assignedImageId = id

\* C17: during deleteAsset(X) of an existing asset X, in every store state a
\* subscriber observes, if X is absent from assets then no group's imageIds
\* contains X and no page of any project has assignedImageId = X.
C17_CleanupPrecedesRemoval ==
  DuringDeleteAsset /\ HasAsset(call.before.assets, call.args.id) =>
    (~HasAsset(assets, call.args.id) => ~Referenced(call.args.id))

\* C18: a subscriber never observes a part of a running operation's effect: the
\* store it sees is the store the operation found or the store the operation
\* leaves.
C18_OneTransitionPerOperation ==
  call # NoCall => Cur = call.before \/ Cur = call.whole

----------------------------------------------------------------------------
(* The active page after reconciliation *)

\* C19: after updateProject reconciles the page list of the active project,
\* activePageIndex is a valid index of the new months list: if it was >= the
\* new length it becomes length-1 (0 for an empty list), otherwise it is
\* unchanged; the last set of the call leaves the clamped index in the store.
C19_ClampActivePage ==
  \A i \in 1..Len(projects), updates \in UpdatesInputs :
    projects[i].id = activeProjectId /\ ShouldRegenerate(projects[i], updates) =>
      LET after == updateProject(Cur, projects[i].id, updates)
          sets == updateProjectSets(Cur, projects[i].id, updates)
          n == Len(after.projects[i].months)
      IN /\ after.activePageIndex >= 0
         /\ after.activePageIndex < n \/ (n = 0 /\ after.activePageIndex = 0)
         /\ IF activePageIndex >= n
            THEN after.activePageIndex = (IF n = 0 THEN 0 ELSE n - 1)
            ELSE after.activePageIndex = activePageIndex
         /\ sets[Len(sets)].activePageIndex = after.activePageIndex
         /\ sets[Len(sets)].projects = after.projects

\* the last page of a 13-page list was shown, and the list was reconciled to 7
C19_Witness ==
  /\ last.op = "updateProject"
  /\ last.updates = OnlyMonthsPerPage(2)
  /\ activeProjectId = last.id
  /\ activePageIndex = 6
  /\ \E i \in 1..Len(projects) :
       projects[i].id = last.id /\ Len(projects[i].months) = 7

----------------------------------------------------------------------------
(* Dangling ids *)

\* every id in a group's imageIds names an asset of s, and every id in an
\* asset's groupIds names a group of s
NoDanglingIds(s) ==
  /\ \A i \in 1..Len(s.groups) :
       \A id \in Range(s.groups[i].imageIds) : HasAsset(s.assets, id)
  /\ \A i \in 1..Len(s.assets) :
       \A id \in Range(s.assets[i].groupIds) :
         \E j \in 1..Len(s.groups) : s.groups[j].id = id

\* C20: in every state reachable through addAsset, deleteAsset, createGroup,
\* deleteGroup, addImagesToGroup, removeImagesFromGroup and loadSnapshot of a
\* consistent snapshot, every id in any group's imageIds names an existing asset
\* and every id in any asset's groupIds names an existing group.
C20_NoDanglingIds ==
  /\ NoDanglingIds(Cur)
  /\ NoDanglingIds(getSnapshot(Cur)) => NoDanglingIds(loadSnapshot(Cur, getSnapshot(Cur)))

----------------------------------------------------------------------------
(* The history log *)

MaxPushes == 22
MaxUndos == 2

\* the k-th transform edit of a page: each starts from the previous one's result
HistoryAction(k) ==
  [type |-> "transform", before |-> k - 1, after |-> k, pageIndex |-> 0]

DoHistory(s, l, h) ==
  /\ Commit(s)
  /\ last' = l
  /\ hops' = h
  /\ UNCHANGED <<nops, rt, call>>
  /\ UNCHANGED persistence

PushHistory ==
  /\ hops.pushes < MaxPushes
  /\ DoHistory(pushHistory(Cur, HistoryAction(hops.pushes + 1)),
               [op |-> "pushHistory", action |-> HistoryAction(hops.pushes + 1),
                history |-> history, historyIndex |-> historyIndex],
               [hops EXCEPT !.pushes = @ + 1])

Undo ==
  /\ hops.undos < MaxUndos
  /\ DoHistory(undo(Cur), [op |-> "undo", history |-> history, historyIndex |-> historyIndex],
               [hops EXCEPT !.undos = @ + 1])

Redo ==
  DoHistory(redo(Cur), [op |-> "redo", history |-> history, historyIndex |-> historyIndex], hops)

NextHistory == PushHistory \/ Undo \/ Redo

SpecHistory == Init /\ [][NextHistory]_vars

\* the last n entries of a list
LastEntries(entries, n) ==
  IF Len(entries) > n THEN SubSeq(entries, Len(entries) - n + 1, Len(entries)) ELSE entries

\* what a push should leave of the history `before` with index `index`
PushedHistory(before, index, action) ==
  LastEntries(Append(SubSeq(before, 1, index + 1), action), 20)

\* C21: in every reachable state history.length <= 20 and
\* -1 <= historyIndex <= history.length - 1; pushHistory drops every entry after
\* historyIndex, appends the new entry, evicts the oldest entries until at most
\* 20 remain and leaves historyIndex at the new last entry, so that redo is a
\* no-op right after a push.
C21_HistoryBounded ==
  /\ Len(history) <= 20
  /\ -1 <= historyIndex
  /\ historyIndex <= Len(history) - 1
  /\ LET after == pushHistory(Cur, HistoryAction(hops.pushes + 1))
     IN /\ after.history = PushedHistory(history, historyIndex, HistoryAction(hops.pushes + 1))
        /\ after.historyIndex = Len(after.history) - 1
        /\ redo(after) = after
        /\ [after EXCEPT !.history = history, !.historyIndex = historyIndex] = Cur
  /\ last.op = "pushHistory" =>
       /\ history = PushedHistory(last.history, last.historyIndex, last.action)
       /\ historyIndex = Len(history) - 1
       /\ redo(Cur) = Cur

\* a push onto a full history: the oldest entry was evicted; an earlier push
\* after an undo had dropped a redo entry
C21_Witness ==
  /\ last.op = "pushHistory"
  /\ Len(last.history) = 20
  /\ last.historyIndex = 19
  /\ history[1] = last.history[2]
  /\ history[20] = last.action
  /\ history[20].after - history[1].after > 19

\* undo() and redo() as described: the index moves by one inside its range
\* and nothing else changes
UndoRedoMoveIndexOnly ==
  /\ undo(Cur) = (IF historyIndex >= 0 THEN [Cur EXCEPT !.historyIndex = historyIndex - 1]
                  ELSE Cur)
  /\ redo(Cur) = (IF historyIndex < Len(history) - 1
                  THEN [Cur EXCEPT !.historyIndex = historyIndex + 1]
                  ELSE Cur)

\* C22 as stated: undo() decrements historyIndex when historyIndex >= 0 and
\* redo() increments it when historyIndex < history.length - 1, each a no-op
\* otherwise; neither changes projects, assets, groups or the history entries;
\* undo followed by redo restores the previous historyIndex.
C22_UndoThenRedoRestores ==
  /\ UndoRedoMoveIndexOnly
  /\ redo(undo(Cur)).historyIndex = historyIndex

\* C22, amended: undo followed by redo restores the previous historyIndex
\* when the undo moved it (historyIndex >= 0); with historyIndex = -1 the undo
\* is a no-op and the redo moves the index to 0 if the history has an entry.
C22_UndoThenRedoRestoresWhenUndone ==
  /\ UndoRedoMoveIndexOnly
  /\ historyIndex >= 0 => redo(undo(Cur)).historyIndex = historyIndex
  /\ historyIndex < 0 =>
       redo(undo(Cur)).historyIndex = (IF Len(history) > 0 THEN 0 ELSE historyIndex)
  /\ last.op = "undo" =>
       /\ history = last.history
       /\ historyIndex = (IF last.historyIndex >= 0 THEN last.historyIndex - 1
                          ELSE last.historyIndex)
  /\ last.op = "redo" =>
       /\ history = last.history
       /\ historyIndex = (IF last.historyIndex < Len(last.history) - 1
                          THEN last.historyIndex + 1 ELSE last.historyIndex)

\* a redo moved the index back after an undo
C22_Witness ==
  /\ last.op = "redo"
  /\ hops.undos >= 1
  /\ Len(history) >= 2
  /\ historyIndex = last.historyIndex + 1
  /\ historyIndex = Len(history) - 1

----------------------------------------------------------------------------
(* Concurrent saves: the auto-save and the editor's Save button *)

\* the editor renames a project; the auto-save subscription sees the change
SavedRenameProject ==
  \E id \in ProjectIds :
    /\ nops < MaxOps
    /\ HasProject(projects, id)
    /\ nops' = nops + 1
    /\ DoSaved(updateProject(Cur, id, OnlyTitle("t2")),
               [op |-> "updateProject", id |-> id, updates |-> OnlyTitle("t2")])

\* the Save button: saveState(getSnapshot()) is called at once
SaveButton ==
  /\ Len(saves) < MaxInFlight
  /\ saves' = Append(saves, getSnapshot(Cur))
  /\ last' = [op |-> "saveButton"]
  /\ UNCHANGED <<store, nops, rt, call, hops, remote, localCache, debounce, saved, loading>>

\* a saveState call in flight resolves, whichever was called first; the
\* calls still in flight and the stores it found are remembered
SaveStateResolves ==
  \E k \in 1..Len(saves), outcome \in SaveOutcomes :
    LET done == saveState(remote, localCache, saves[k], outcome)
    IN /\ remote' = done.remote
       /\ localCache' = done.localCache
       /\ saves' = [i \in 1..(Len(saves) - 1) |-> saves[IF i < k THEN i ELSE i + 1]]
       /\ last' = [op |-> "saveStateResolved", outcome |-> outcome, state |-> saves[k],
                   laterCalls |-> Len(saves) - k,
                   remoteFound |-> remote, localCacheFound |-> localCache]
       /\ UNCHANGED <<store, nops, rt, call, hops, debounce, saved, loading>>

NextSaves ==
  \/ SavedCreateProject
  \/ SavedRenameProject
  \/ SaveButton
  \/ TimeoutFires
  \/ SaveStateResolves

SpecSaves == Init /\ [][NextSaves]_vars

\* the remote projects table holds the row of every project of state
RemoteHoldsProjects(r, state) ==
  \A i \in 1..Len(state.projects) :
    \E j \in 1..Len(r.projects) : r.projects[j] = projectToDbProject(state.projects[i])

\* C23: saveState calls made one after the other are not ordered: whichever
\* call resolves last leaves its snapshot in the local cache and, when its
\* remote write completed, its rows in the remote store, also when a call made
\* later resolved before it.
C23_LastResponseWins ==
  /\ \A k \in 1..Len(saves), outcome \in SaveOutcomes :
       LET done == saveState(remote, localCache, saves[k], outcome)
       IN /\ done.localCache = saveToLocalStorage(saves[k])
          /\ outcome = "ok" => RemoteHoldsProjects(done.remote, saves[k])
  /\ last.op = "saveStateResolved" =>
       /\ localCache = saveToLocalStorage(last.state)
       /\ last.outcome = "ok" => RemoteHoldsProjects(remote, last.state)

\* S1 (title t1) was passed to saveState before S2 (title t2); S2 resolved
\* first and left its data in both stores; S1 resolved last, and both stores
\* hold S1's title while the store in memory holds S2's
C23_Witness ==
  /\ last.op = "saveStateResolved"
  /\ last.outcome = "ok"
  /\ last.laterCalls = 0
  /\ saves = <<>>
  /\ Len(projects) = 1
  /\ projects[1].title = "t2"
  /\ Len(last.state.projects) = 1
  /\ last.state.projects[1].title = "t1"
  /\ last.localCacheFound = saveToLocalStorage(getSnapshot(Cur))
  /\ RemoteHoldsProjects(last.remoteFound, getSnapshot(Cur))
  /\ localCache = saveToLocalStorage(last.state)
  /\ Len(remote.projects) = 1
  /\ remote.projects[1].title = "t1"

----------------------------------------------------------------------------
(* A load in flight while the screens mutate the store *)

\* AppContent calls loadState() when it mounts; the screens act afterwards
MountedCreateProject == loading # "idle" /\ SavedCreateProject
MountedDeleteProject == loading # "idle" /\ SavedDeleteProject

NextLoad ==
  \/ LoadStateStarts
  \/ MountedCreateProject
  \/ MountedDeleteProject
  \/ TimeoutFires
  \/ SaveStateSettles
  \/ LoadStateSettles

SpecLoad == Init /\ [][NextLoad]_vars

\* the store holds the collections of the snapshot, as loadSnapshot leaves them
HoldsSnapshot(s, snapshot) ==
  /\ s.projects = snapshot.projects
  /\ s.assets = snapshot.assets
  /\ s.groups = UniqueByName(UniqueById(snapshot.groups))
  /\ s.activeProjectId = snapshot.activeProjectId
  /\ s.activePageIndex = snapshot.activePageIndex

\* C24: the store's loadState applies the snapshot it receives whenever the
\* load resolves, whatever the store holds by then: the projects, assets,
\* groups and activeProjectId of the store are replaced by the snapshot's.
C24_LoadAppliedWheneverResolved ==
  /\ loading = "pending" =>
       \A outcome \in LoadOutcomes :
         LET got == loadState(remote, localCache, outcome)
         IN got.result # <<>> => HoldsSnapshot(loadSnapshot(Cur, got.result[1]), got.result[1])
  /\ last.op = "loadState" /\ last.result # <<>> => HoldsSnapshot(Cur, last.result[1])

\* a project was created and made active after loadState() was called; the
\* load then resolved with the remote store's empty snapshot and the project
\* and the active id are gone
C24_Witness ==
  /\ last.op = "loadState"
  /\ last.outcome = "ok"
  /\ last.result # <<>>
  /\ nops = 1
  /\ debounce.calls >= 2
  /\ projects = <<>>
  /\ activeProjectId = Null

----------------------------------------------------------------------------
(* Deletions and the remote store *)

\* the snapshot loadState() returns after saveState(snapshot) has completed,
\* with no other writer in between (<<>> is null)
SavedThenLoaded(snapshot) ==
  LET done == saveState(remote, localCache, snapshot, "ok")
  IN loadState(done.remote, done.localCache, "ok").result

\* C25: after deleteProject(id) or deleteGroup(id), a completed saveState of
\* the resulting snapshot and then loadState(), the loaded snapshot does not
\* contain the deleted project or group.
C25_DeletedStaysDeleted ==
  /\ \A id \in ProjectIds : HasProject(projects, id) =>
       LET loaded == SavedThenLoaded(getSnapshot(deleteProject(Cur, id)))
       IN loaded # <<>> /\ ~HasProject(loaded[1].projects, id)
  /\ \A id \in GroupIds : (\E i \in 1..Len(groups) : groups[i].id = id) =>
       LET loaded == SavedThenLoaded(getSnapshot(deleteGroup(Cur, id)))
       IN loaded # <<>> /\ \A i \in 1..Len(loaded[1].groups) : loaded[1].groups[i].id # id

----------------------------------------------------------------------------
(* The asset_groups junction table *)

\* asset.groupIds and group.imageIds of s name existing records and agree
MutuallyConsistent(s) ==
  /\ NoDanglingIds(s)
  /\ \A i \in 1..Len(s.assets) :
       \A j \in 1..Len(s.groups) :
         s.groups[j].id \in Range(s.assets[i].groupIds)
           <=> s.assets[i].id \in Range(s.groups[j].imageIds)

\* the pairs (a, g) with g in a.groupIds
GroupPairs(s) ==
  UNION {{<<s.assets[i].id, g>> : g \in Range(s.assets[i].groupIds)} : i \in 1..Len(s.assets)}

\* C26: after saveToSupabase(snapshot) completes without throwing, for a
\* snapshot whose asset.groupIds and group.imageIds are mutually consistent,
\* the remote asset_groups table holds exactly the pairs (a, g) with g in
\* a.groupIds, pairs whose group row did not exist remotely before included.
C26_JunctionHoldsPairs ==
  MutuallyConsistent(Cur) =>
    LET written == saveToSupabase(remote, getSnapshot(Cur), "ok")
    IN ~written.threw /\ written.remote.asset_groups = GroupPairs(Cur)

----------------------------------------------------------------------------
(* The project getActiveProject returns *)

\* C27: whenever getActiveProject() returns a project, the returned project has
\* the months and monthsPerPage of the project stored under activeProjectId
\* after the call, and the stored project satisfies the page-count rule, so
\* that a page edit built from the returned project stores a months list of the
\* right length.
C27_ReturnedIsStored ==
  LET g == getActiveProject(Cur)
  IN g.found =>
       LET stored == FindProject(g.store.projects, activeProjectId)
       IN /\ g.project.months = stored.months
          /\ g.project.monthsPerPage = stored.monthsPerPage
          /\ PageCountRule(stored)
          /\ \A pageIndex \in AllPageIndexes :
               PageCountRule(FindProject(toggleGrid(Cur, pageIndex).projects, activeProjectId))

----------------------------------------------------------------------------
(* Auto-save of the final state *)

\* the snapshot holds the persisted fields of the store as they are now
HoldsStore(state) ==
  /\ state.projects = projects
  /\ state.assets = assets
  /\ state.groups = groups
  /\ state.activeProjectId = activeProjectId
  /\ state.activePageIndex = activePageIndex

\* once the store has changed, its present fields are in the pending timeout
\* or were passed to the latest saveState call of the debounced save
StoreTracked ==
  debounce.calls > 0 =>
    \/ \E k \in 1..Len(debounce.pending) : HoldsStore(debounce.pending[k].state)
    \/ (saved # <<>> /\ HoldsStore(saved[Len(saved)].state))

\* saveState was called with the present fields of the store
StoreSaved ==
  debounce.calls > 0 => (saved # <<>> /\ HoldsStore(saved[Len(saved)].state))

\* C28: if projects, assets, groups, activeProjectId and activePageIndex stop
\* changing after some mutation, then, timers firing, saveState is eventually
\* called with a snapshot whose fields equal the final values in memory.
C28_FinalStateSaved ==
  /\ []StoreTracked
  /\ <>[]StoreSaved

\* three mutations were made, the last a deletion, and the debounced save
\* has passed the store's final fields to saveState
C28_Witness ==
  /\ nops = MaxOps
  /\ last.op = "timeout"
  /\ debounce.pending = <<>>
  /\ debounce.calls >= 3
  /\ saved # <<>>
  /\ HoldsStore(saved[Len(saved)].state)
  /\ Len(projects) = 1

-----------------------------------------------------------------------------
(* Loading snapshots whose groups repeat an id or a name *)

MaxSnapshotGroups == 3
GroupNames == {"Nature", "City"}

SnapshotGroupInputs ==
  [id : GroupIds, name : GroupNames, color : {Undefined},
   imageIds : {<<>>, <<"a1">>}]

GroupLists ==
  UNION {[1..n -> SnapshotGroupInputs] : n \in 0..MaxSnapshotGroups}

GroupSnapshots ==
  {[version |-> 1, projects |-> ps, assets |-> as, groups |-> gs,
    activeProjectId |-> IF ps = <<>> THEN Null ELSE ps[1].id,
    activePageIndex |-> 0] :
     ps \in {<<>>, SingleSnapshot.projects},
     as \in {SnapshotAssets},
     gs \in GroupLists}

LoadGroupSnapshot ==
  \E snapshot \in GroupSnapshots :
    DoLib(loadSnapshot(Cur, snapshot),
          [op |-> "loadSnapshot", snapshot |-> snapshot])

NextGroups ==
  \/ LoadGroupSnapshot
  \/ AddAsset
  \/ CreateGroup
  \/ DeleteGroup

SpecGroups == Init /\ [][NextGroups]_vars

\* the members of gs at the positions in keep, in the order of gs
KeptAt(gs, keep) ==
  [k \in 1..Cardinality(keep) |->
     gs[CHOOSE i \in keep : Cardinality({j \in keep : j <= i}) = k]]

\* positions of the groups that no earlier group of the snapshot matches in
\* id or in name
FirstOfIdOrName(gs) ==
  {i \in 1..Len(gs) :
     \A j \in 1..(i - 1) : gs[j].id # gs[i].id /\ gs[j].name # gs[i].name}

\* positions of the groups that are the first of their id
FirstOfId(gs) ==
  {i \in 1..Len(gs) : \A j \in 1..(i - 1) : gs[j].id # gs[i].id}

\* positions of the groups that are the first of their id and whose name no
\* earlier first-of-its-id group carries
FirstOfIdThenName(gs) ==
  {i \in FirstOfId(gs) :
     \A j \in FirstOfId(gs) : j < i => gs[j].name # gs[i].name}

NoTwoShareIdOrName(gs) ==
  \A i, j \in 1..Len(gs) :
    i # j => gs[i].id # gs[j].id /\ gs[i].name # gs[j].name

\* C29: immediately after loadSnapshot(snapshot), no two groups in the store
\* share the same id and no two share the same name: of several groups with
\* the same id or name only the first in snapshot order is kept, and projects
\* and assets are taken from the snapshot unchanged.
C29_FirstOfIdOrNameKept ==
  last.op = "loadSnapshot" =>
    /\ NoTwoShareIdOrName(groups)
    /\ groups = KeptAt(last.snapshot.groups, FirstOfIdOrName(last.snapshot.groups))
    /\ projects = last.snapshot.projects
    /\ assets = last.snapshot.assets

\* C29, amended: immediately after loadSnapshot(snapshot), no two groups in
\* the store share the same id and no two share the same name: the groups
\* kept are the first of each id and, among those, the first of each name, in
\* snapshot order (a group is kept although an earlier group has its name when
\* that earlier group repeats an id), and projects and assets are taken from
\* the snapshot unchanged.
C29_FirstOfIdThenNameKept ==
  last.op = "loadSnapshot" =>
    /\ NoTwoShareIdOrName(groups)
    /\ groups = KeptAt(last.snapshot.groups, FirstOfIdThenName(last.snapshot.groups))
    /\ projects = last.snapshot.projects
    /\ assets = last.snapshot.assets

\* a snapshot of three groups was loaded, the second repeating the id of the
\* first and the third the name of the second: the first and third are kept
C29_Witness ==
  /\ last.op = "loadSnapshot"
  /\ Len(last.snapshot.groups) = 3
  /\ last.snapshot.groups[2].id = last.snapshot.groups[1].id
  /\ last.snapshot.groups[3].name = last.snapshot.groups[2].name
  /\ last.snapshot.projects # <<>>
  /\ last.snapshot.assets # <<>>
  /\ Len(groups) = 2
  /\ groups = <<last.snapshot.groups[1], last.snapshot.groups[3]>>

-----------------------------------------------------------------------------
(* Project settings through the remote store *)

\* the CalendarProject createProject(title, type, format, orientation) builds
CalendarProject(id, title, type, format, orientation) ==
  [id |-> id, title |-> title, calendarType |-> type, format |-> format,
   orientation |-> orientation, bleed |-> 3, margin |-> 10,
   months |-> createDefaultMonthPages(2), monthsPerPage |-> 2,
   selectedGroupId |-> Undefined, fontFamily |-> "Inter",
   coverImageFit |-> "cover", monthsImageFit |-> "cover"]

CalendarTypes == {"wall", "desk"}
Orientations == {"portrait", "landscape"}
FontFamilies == {"Inter", "Sora"}
SelectedGroupIds == {Undefined, "g1"}

\* projects as created, and after the editor's updateProject calls that set
\* the font, the selected group and the months per page
CalendarProjects ==
  {[CalendarProject(id, "t1", type, "A4", orientation) EXCEPT
      !.fontFamily = font, !.selectedGroupId = selected,
      !.monthsPerPage = monthsPerPage,
      !.months = createDefaultMonthPages(monthsPerPage)] :
     id \in ProjectIds, type \in CalendarTypes, orientation \in Orientations,
     font \in FontFamilies, selected \in SelectedGroupIds,
     monthsPerPage \in {1, 2}}

\* saveToSupabase(snapshot) completes, the snapshot holding one project
SaveToSupabase ==
  \E project \in CalendarProjects :
    LET state == [version |-> 1, projects |-> <<project>>, assets |-> <<>>,
                  groups |-> <<>>, activeProjectId |-> project.id,
                  activePageIndex |-> 0]
    IN /\ remote' = saveToSupabase(remote, state, "ok").remote
       /\ last' = [op |-> "saveToSupabase", state |-> state]
       /\ UNCHANGED <<store, nops, rt, call, hops, localCache, debounce, saves,
                      saved, loading>>

\* loadFromSupabase() right after a saveToSupabase
LoadFromSupabase ==
  /\ last.op = "saveToSupabase"
  /\ last' = [op |-> "loadFromSupabase", saved |-> last.state,
              loaded |-> loadFromSupabase(remote, "ok")[1]]
  /\ UNCHANGED <<store, nops, rt, call, hops, persistence>>

NextSettings ==
  \/ SaveToSupabase
  \/ LoadFromSupabase

SpecSettings == Init /\ [][NextSettings]_vars

SameSettings(p, q) ==
  /\ p.title = q.title
  /\ p.calendarType = q.calendarType
  /\ p.format = q.format
  /\ p.orientation = q.orientation
  /\ p.bleed = q.bleed
  /\ p.margin = q.margin
  /\ p.months = q.months
  /\ p.monthsPerPage = q.monthsPerPage
  /\ p.fontFamily = q.fontFamily
  /\ p.coverImageFit = q.coverImageFit
  /\ p.monthsImageFit = q.monthsImageFit
  /\ p.selectedGroupId = q.selectedGroupId

\* C30: saveToSupabase(snapshot) followed by loadFromSupabase() with no other
\* writer returns every saved project with the same title, calendarType,
\* format, orientation, bleed, margin, months, monthsPerPage, fontFamily,
\* coverImageFit, monthsImageFit and selectedGroupId as in the saved snapshot.
C30_SettingsSurviveRemote ==
  last.op = "loadFromSupabase" =>
    \A i \in 1..Len(last.saved.projects) :
      \E j \in 1..Len(last.loaded.projects) :
        /\ last.loaded.projects[j].id = last.saved.projects[i].id
        /\ SameSettings(last.loaded.projects[j], last.saved.projects[i])

====
